---- MODULE Spec2Model ----
(***************************************************************************)
(* Model of linuxserver/docker-ci: CI.run fans container_test out over the *)
(* tags on a thread pool; every worker launches the test container, runs   *)
(* generate_sbom and watch_container_logs as two concurrent tasks, reads   *)
(* the build info, optionally takes a screenshot and finalizes the tag in  *)
(* _endtest.  run_test then applies the amd64 override to report_status.   *)
(***************************************************************************)
EXTENDS FiniteSets, Integers, Sequences, TLC

(* ------------------------------ bounds --------------------------------- *)
\* Largest value of SBOM_TIMEOUT, counted in sleep(5) periods of generate_sbom.
MaxSbomTimeout == 2
\* Largest value of DOCKER_LOGS_TIMEOUT, counted in sleep(1) periods of
\* watch_container_logs.
MaxLogsTimeout == 1
\* Largest number of calls made of a function that is checked on its own
\* (get_platform, _add_test_result).
MaxCalls == 2
\* Largest length of the message of a log record.
MaxMessageLen == 3
\* Largest number of pipe-separated items of a key/value string.
MaxItems == 2
\* Largest WEB_SCREENSHOT_TIMEOUT, in sleeps of take_screenshot's retry loop.
MaxScreenshotTimeout == 2

(* -------------------------- program constants -------------------------- *)
\* ThreadPool(processes=10)
Processes == 10
\* platform: str = tag[:5]
PlatformPrefixLen == 5

(* --------------------------- string helpers ---------------------------- *)
Min(a, b) == IF a < b THEN a ELSE b

\* Python's s[:n]
Prefix(s, n) == SubSeq(s, 1, Min(n, Len(s)))

\* Python's s.startswith(p)
StartsWith(s, p) == Len(s) >= Len(p) /\ SubSeq(s, 1, Len(p)) = p

\* Python's `p in s` for strings s, p
InStr(p, s) == \E k \in 1..(Len(s) - Len(p) + 1) : SubSeq(s, k, k + Len(p) - 1) = p

\* Platform.AMD64.value, the prefix run_test matches tags against
PlatformAMD64 == "amd64"

(* ------------------------------- inputs -------------------------------- *)
\* The values of TAGS the runs are checked with (lists of distinct tags);
\* CI.__init__ splits TAGS on "|".
TagLists ==
    { <<"amd64-1.0", "arm64-1.0">>,
      <<"latest", "arm64v8-1.0">>,
      <<"arm32v7-1.0">>,
      <<"riscv64-1.0">>,
      <<"amd6">> }

\* What a log of the syft container is modelled by: the set of the keywords
\* the program looks for ("VERSION", "icu-libs", "uwsgi") that occur in it.
SyftLogs == { {}, {"VERSION"} }

\* The return value "ERROR" of generate_sbom contains none of the keywords;
\* it is kept apart from every log by its own element.
SbomError == {"ERROR"}

\* error_message of generate_sbom, line 498
NotFoundMessage == "Did not find the 'VERSION' keyword in the syft container logs"

\* The start_time a collector measures with time.time(): a non-zero float
Measured == [isnum |-> TRUE,  truthy |-> TRUE]
\* start_time = 0.0, the default of _add_test_result and _endtest
ZeroTime == [isnum |-> TRUE, truthy |-> FALSE]
\* start_time = "", as the test of _add_test_result passes it
EmptyStr == [isnum |-> FALSE, truthy |-> FALSE]

\* The tags get_platform is called with: a leading part and a build descriptor
PlatformPrefixes ==
    { "amd64", "arm64", "arm64v8", "arm32", "arm32v7", "arm32v6", "riscv",
      "riscv64", "riscv32", "arm", "armhf", "amd6", "a", "", "latest",
      "unknown", "x86_64", "AMD64", "1.0" }
PlatformSuffixes == { "", "-foo", "-1.0" }
PlatformTags == { p \o x : p \in PlatformPrefixes, x \in PlatformSuffixes }

\* The tags and the package lists _endtest is called with: the tags name
\* their platform in front, and the version that follows is free text
AdvisoryPrefixes == { "amd64", "arm64v8", "arm32v7", "riscv64", "armhf", "latest" }
AdvisorySuffixes == { "-1.0", "-charm-1.0" }
AdvisoryTags == { p \o x : p \in AdvisoryPrefixes, x \in AdvisorySuffixes }
PackageLists == SUBSET {"VERSION", "icu-libs", "uwsgi"} \cup { SbomError }

\* The arguments _add_test_result is called with
ResultTests == { "Container startup", "Create SBOM" }
ResultStatuses == { "PASS", "FAIL", "SKIP" }
ResultMessages == { "-", "INIT NOT FINISHED" }
ResultStartTimes == { Measured, EmptyStr, ZeroTime }

\* The files the three renderers write to outdir
Artifacts == { "index.html", "badge.svg", "report.json" }

\* The exceptions report_upload expects of upload_file (line 733)
UploadFailures == { "S3UploadFailedError", "ValueError", "ClientError" }

\* The value both keys of the formatter have when the environment gives none
DefaultKey == "super_secret_key"

\* The credentials the formatter is configured with: strings over a, b and +
Keys == { "ab", "ba", "a+b", "b+a" }

\* The characters of the messages
MessageChars == { "a", "b", "+" }

\* The strings over MessageChars of length n, and of length up to n
RECURSIVE StringsOfLen(_)
StringsOfLen(n) ==
    IF n = 0 THEN { "" }
    ELSE { m \o c : m \in StringsOfLen(n - 1), c \in MessageChars }
Messages == UNION { StringsOfLen(n) : n \in 0..MaxMessageLen }

\* The exception texts of the records ("" for a record without exception)
ExcTexts == { "", "b" }

(* ------------------------------- re.sub -------------------------------- *)
\* s[k] of a Python string, counted from 1
Char(s, k) == SubSeq(s, k, k)

\* The regular expression a pattern of literal characters and repetitions
\* (x+) compiles to: its items, each a character and whether it is repeated
RECURSIVE ParsePattern(_, _)
ParsePattern(pattern, k) ==
    IF k > Len(pattern) THEN << >>
    ELSE IF k < Len(pattern) /\ Char(pattern, k + 1) = "+"
         THEN << [c |-> Char(pattern, k), plus |-> TRUE] >> \o ParsePattern(pattern, k + 2)
         ELSE << [c |-> Char(pattern, k), plus |-> FALSE] >> \o ParsePattern(pattern, k + 1)

\* The number of consecutive characters c of s from position p on
RECURSIVE Run(_, _, _)
Run(s, p, c) ==
    IF p <= Len(s) /\ Char(s, p) = c THEN 1 + Run(s, p + 1, c) ELSE 0

\* The position after the match of items[k..] in s at position p that the
\* backtracking matcher finds first (repetitions are greedy), 0 without match
RECURSIVE MatchEnd(_, _, _, _)
RECURSIVE TryRuns(_, _, _, _, _)
MatchEnd(items, k, s, p) ==
    IF k > Len(items) THEN p
    ELSE IF ~items[k]["plus"]
         THEN IF p <= Len(s) /\ Char(s, p) = items[k]["c"]
              THEN MatchEnd(items, k + 1, s, p + 1) ELSE 0
         ELSE TryRuns(items, k, s, p, Run(s, p, items[k]["c"]))
TryRuns(items, k, s, p, r) ==
    IF r = 0 THEN 0
    ELSE LET e == MatchEnd(items, k + 1, s, p + r)
         IN  IF e # 0 THEN e ELSE TryRuns(items, k, s, p, r - 1)

\* s from position p on with the leftmost non-overlapping matches replaced
RECURSIVE Sub(_, _, _, _)
Sub(items, repl, s, p) ==
    IF p > Len(s) THEN ""
    ELSE LET e == MatchEnd(items, 1, s, p)
         IN  IF e # 0 THEN repl \o Sub(items, repl, s, e)
             ELSE Char(s, p) \o Sub(items, repl, s, p + 1)

\* re.sub(pattern, repl, s) for a pattern of literals and repetitions
ReSub(pattern, repl, s) == Sub(ParsePattern(pattern, 1), repl, s, 1)

(* ---------------------- _split_key_value_string ----------------------- *)
\* The items a key/value string is made of
Items == { "", "K", "K=", "K=V", "=V", "J=V", "K=V=W" }

\* "|".join(items)
RECURSIVE Join(_)
Join(items) ==
    IF Len(items) = 0 THEN ""
    ELSE IF Len(items) = 1 THEN items[1]
    ELSE items[1] \o "|" \o Join(Tail(items))

\* The key/value strings of up to MaxItems items
KVStrings == { Join(items) : items \in UNION { [1..n -> Items] : n \in 0..MaxItems } }

\* s.split(sep) for a separator of one character, from position p on, the
\* current part beginning at start
RECURSIVE SplitFrom(_, _, _, _)
SplitFrom(s, sep, p, start) ==
    IF p > Len(s) THEN << SubSeq(s, start, Len(s)) >>
    ELSE IF Char(s, p) = sep
         THEN << SubSeq(s, start, p - 1) >> \o SplitFrom(s, sep, p + 1, p + 1)
         ELSE SplitFrom(s, sep, p + 1, start)
Split(s, sep) == SplitFrom(s, sep, 1, 1)

\* The condition of both comprehensions:
\* item and "=" in item and item.split('=')[1]
KeptItem(item) == item # "" /\ InStr("=", item) /\ Split(item, "=")[2] # ""

\* (item.split("=") for item in kv.split("|") if ...)
RECURSIVE SelectKept(_)
SelectKept(items) ==
    IF Len(items) = 0 THEN << >>
    ELSE (IF KeptItem(Head(items)) THEN << Split(Head(items), "=") >> ELSE << >>)
         \o SelectKept(Tail(items))
SplitItems(kv) == SelectKept(Split(kv, "|"))

\* A dict as the sequence of its (key, value) pairs in insertion order;
\* d[k] = v keeps the position of a key that is present
DictPut(d, k, v) ==
    IF \E i \in DOMAIN d : d[i][1] = k
    THEN [i \in DOMAIN d |-> IF d[i][1] = k THEN << k, v >> ELSE d[i]]
    ELSE Append(d, << k, v >>)

\* dict(pairs) for pairs of two elements each
RECURSIVE DictOf(_, _)
DictOf(pairs, d) ==
    IF Len(pairs) = 0 THEN d
    ELSE DictOf(Tail(pairs), DictPut(d, Head(pairs)[1], Head(pairs)[2]))

\* _split_key_value_string(kv, make_list): dict() and the unpacking k,v raise
\* ValueError for an element that has not exactly two parts
_split_key_value_string(kv, make_list) ==
    LET parts == SplitItems(kv)
    IN  IF \E i \in DOMAIN parts : Len(parts[i]) # 2
        THEN [raised |-> "ValueError"]
        ELSE IF make_list
             THEN [raised |-> "none",
                   value |-> [i \in DOMAIN parts |-> parts[i][1] \o ":" \o parts[i][2]]]
             ELSE [raised |-> "none", value |-> DictOf(parts, << >>)]

(* ------------------------- CustomLogFormatter -------------------------- *)
\* logging.Formatter.format: the message, then the exception text on a new line
SuperFormat(record) ==
    IF record["exc_text"] # "" THEN record["msg"] \o "\n" \o record["exc_text"]
    ELSE record["msg"]

\* s.replace("\n", "") on a string with at most one newline, after the message
RemoveNewline(record, s) ==
    IF record["exc_text"] # "" THEN record["msg"] \o record["exc_text"] ELSE s

format_credential_key(access_key, s) == ReSub(access_key, "(removed)", s)

format_secret_key(secret_key, s) == ReSub(secret_key, "(removed)", s)

\* CustomLogFormatter.format(record)
format(access_key, secret_key, record) ==
    LET s0 == SuperFormat(record)
        s1 == IF record["exc_text"] # "" THEN RemoveNewline(record, s0) \o "|" ELSE s0
    IN  format_secret_key(secret_key, format_credential_key(access_key, s1))

VARIABLES
    tags,               \* self.tags, the argument of CI.run
    sbom_timeout,       \* self.sbom_timeout, in sleep periods
    logs_timeout,       \* self.logs_timeout, in sleep periods
    screenshot,         \* self.screenshot
    screenshot_timeout, \* self.screenshot_timeout
    ACCESS_KEY,         \* CustomLogFormatter.ACCESS_KEY
    SECRET_KEY,         \* CustomLogFormatter.SECRET_KEY
    pcMain,             \* position of run_test
    pcRun,              \* position of CI.run
    display,            \* the Xvfb Display of CI.run
    pc,                 \* position of each worker (container_test call)
    container,          \* state of each worker's test container
    sbomPc,             \* position of each worker's generate_sbom task
    sbomElapsed,        \* sleep periods generate_sbom has slept
    logblobBound,       \* whether generate_sbom's local logblob is bound
    logblob,            \* generate_sbom's local logblob
    error_message,      \* generate_sbom's local error_message
    sbom,               \* result of future_sbom
    syftRuns,           \* scanner containers run by each worker
    syftRemoves,        \* remove calls on each worker's scanner container
    logsPc,             \* position of each worker's watch_container_logs task
    logsElapsed,        \* sleep periods watch_container_logs has slept
    logsfound,          \* result of future_logs
    build_info,         \* container_test's local build_info
    screenshot_success, \* container_test's local screenshot_success
    endtests,           \* number of _endtest calls of each worker
    removes,            \* remove calls on each worker's test container
    tag_report_tests,   \* self.tag_report_tests[tag]["test"]
    report_containers,  \* self.report_containers
    report_status,      \* self.report_status
    events,             \* history: the failures each worker has met
    rendered,           \* the files the renderers have written to outdir
    uploaded,           \* the files of outdir report_upload has uploaded
    upload_failed,      \* the file whose upload failed in report_upload
    log_uploads,        \* history: the outcome of each log_upload call
    raised,             \* the exception run_test was left by
    calls,              \* history: the calls made of a function checked on its own
    results,            \* history: what each of these calls returned
    shotPc,             \* where a take_screenshot call checked on its own is
    shotElapsed,        \* time.time() - start_time of that call, in sleeps
    png,                \* the tags whose screenshot file is in outdir
    sessions,           \* history: the browser sessions webdriver.Chrome created
    quits,              \* history: the calls of driver.quit()
    quitErrors          \* history: the calls of driver.quit() that raised

\* The configuration CI.__init__ reads from the environment
config == << tags, sbom_timeout, logs_timeout, screenshot, screenshot_timeout,
            ACCESS_KEY, SECRET_KEY >>
\* CI.run and run_test
runVars == << pcMain, pcRun, display >>
\* The generate_sbom task of the workers
sbomVars == << sbomPc, sbomElapsed, logblobBound, logblob, error_message, sbom,
               syftRuns, syftRemoves >>
\* The watch_container_logs task of the workers
logsVars == << logsPc, logsElapsed, logsfound >>
\* The locals of container_test and its test container
workerVars == << pc, container, build_info, screenshot_success, endtests, removes >>
\* The result aggregate
reportVars == << tag_report_tests, report_containers, report_status >>

\* The publishing steps of run_test
publishVars == << rendered, uploaded, upload_failed, log_uploads >>
\* The calls of single functions
callVars == << calls, results >>
\* A take_screenshot call checked on its own
shotVars == << shotPc, shotElapsed, png, sessions, quits, quitErrors >>

vars == << config, runVars, sbomVars, logsVars, workerVars, reportVars, events,
          publishVars, raised, callVars, shotVars >>

Workers == DOMAIN tags
TagSet == { tags[i] : i \in DOMAIN tags }

\* An empty Python dict
EmptyDict == [k \in {} |-> 0]

\* Mutant: an assignment to a key the dict already has is lost
DictSet_KeepsFirst(d, k, v) ==
    [x \in (DOMAIN d) \cup {k} |-> IF x \in DOMAIN d THEN d[x] ELSE v]

\* d[k] = v on a Python dict
DictSet(d, k, v) == [x \in (DOMAIN d) \cup {k} |-> IF x = k THEN v ELSE d[x]]

(* ----------------------------- get_platform ---------------------------- *)
\* Mutant: the case "riscv" is missing
get_platform_NoRiscv(tag) ==
    LET platform == Prefix(tag, PlatformPrefixLen)
    IN  CASE platform = "amd64" -> "amd64"
          [] platform = "arm64" -> "arm64"
          [] platform = "arm32" -> "arm"
          [] OTHER -> "amd64"

get_platform(tag) ==
    LET platform == Prefix(tag, PlatformPrefixLen)
    IN  CASE platform = "amd64" -> "amd64"
          [] platform = "arm64" -> "arm64"
          [] platform = "arm32" -> "arm"
          [] platform = "riscv" -> "riscv64"
          [] OTHER -> "amd64"

(* --------------------------- _add_test_result -------------------------- *)
\* The runtime string: "-" when start_time is falsy, overwritten by the
\* formatted elapsed time when start_time is a float or an int.
Runtime(start_time) ==
    IF start_time.isnum THEN "elapsed" ELSE "-"

\* Mutant: _add_test_result does not check the status
AddTestResultRaises_TagOnly(tag, status) == tag \notin TagSet

\* Whether _add_test_result raises ValueError
AddTestResultRaises(tag, status) ==
    status \notin {"PASS", "FAIL"} \/ tag \notin TagSet

\* self.tag_report_tests after _add_test_result(tag, test, status, message, start_time)
AddTestResult(trt, tag, test, status, message, start_time) ==
    IF AddTestResultRaises(tag, status) THEN trt
    ELSE [trt EXCEPT ![tag] = DictSet(trt[tag], test,
              [status |-> status, message |-> message, runtime |-> Runtime(start_time)])]

(* -------------------------------- Init --------------------------------- *)
Init ==
    /\ tags \in TagLists
    /\ sbom_timeout \in 0..MaxSbomTimeout
    /\ logs_timeout \in 0..MaxLogsTimeout
    /\ screenshot \in BOOLEAN
    /\ ACCESS_KEY = DefaultKey
    /\ SECRET_KEY = DefaultKey
    /\ screenshot_timeout = MaxScreenshotTimeout
    /\ shotPc = "idle"
    /\ shotElapsed = 0
    /\ png = {}
    /\ sessions = 0
    /\ quits = 0
    /\ quitErrors = 0
    /\ pcMain = "run"
    /\ pcRun = "map"
    /\ display = "none"
    /\ pc = [i \in Workers |-> "queued"]
    /\ container = [i \in Workers |-> "none"]
    /\ sbomPc = [i \in Workers |-> "idle"]
    /\ sbomElapsed = [i \in Workers |-> 0]
    /\ logblobBound = [i \in Workers |-> FALSE]
    /\ logblob = [i \in Workers |-> {}]
    /\ error_message = [i \in Workers |-> NotFoundMessage]
    /\ sbom = [i \in Workers |-> {}]
    /\ syftRuns = [i \in Workers |-> 0]
    /\ syftRemoves = [i \in Workers |-> 0]
    /\ logsPc = [i \in Workers |-> "idle"]
    /\ logsElapsed = [i \in Workers |-> 0]
    /\ logsfound = [i \in Workers |-> FALSE]
    /\ build_info = [i \in Workers |-> EmptyDict]
    /\ screenshot_success = [i \in Workers |-> FALSE]
    /\ endtests = [i \in Workers |-> 0]
    /\ removes = [i \in Workers |-> 0]
    /\ tag_report_tests = [t \in TagSet |-> EmptyDict]
    /\ report_containers = EmptyDict
    /\ report_status = "PASS"
    /\ events = [i \in Workers |-> {}]
    /\ rendered = {}
    /\ uploaded = {}
    /\ upload_failed = "none"
    /\ log_uploads = << >>
    /\ raised = "none"
    /\ calls = << >>
    /\ results = << >>

\* events after worker i has met failure e
Met(i, e) == [events EXCEPT ![i] = @ \cup {e}]

(* ------------------------- container_test: launch ---------------------- *)
Active == { j \in Workers : pc[j] \notin {"queued", "done", "raised"} }

\* Mutant: a failed launch records a FAIL result for the tag
Launch_RecordsFailure(i) ==
    /\ pcRun = "map"
    /\ pc[i] = "queued"
    /\ Cardinality(Active) < Processes
    /\ \E ok \in BOOLEAN :
         IF ok
         THEN /\ pc' = [pc EXCEPT ![i] = "collect"]
              /\ container' = [container EXCEPT ![i] = "running"]
              /\ sbomPc' = [sbomPc EXCEPT ![i] = "submitted"]
              /\ logsPc' = [logsPc EXCEPT ![i] = "loop"]
              /\ UNCHANGED << events, tag_report_tests >>
         ELSE /\ pc' = [pc EXCEPT ![i] = "raised"]
              /\ events' = Met(i, "launch")
              /\ tag_report_tests' = AddTestResult(tag_report_tests, tags[i],
                                         "Container startup", "FAIL", "APIError", Measured)
              /\ UNCHANGED << container, sbomPc, logsPc >>
    /\ UNCHANGED << callVars, publishVars, raised, config, shotVars, runVars, sbomElapsed,
                    logblobBound, logblob, error_message, sbom, syftRuns,
                    syftRemoves, logsElapsed, logsfound, build_info,
                    screenshot_success, endtests, removes, report_containers,
                    report_status >>

\* A pool thread picks the tag up and runs client.containers.run for the test
\* container (which may raise); the two collector tasks are then submitted to
\* the executor.
Launch(i) ==
    /\ pcRun = "map"
    /\ pc[i] = "queued"
    /\ Cardinality(Active) < Processes
    /\ \E ok \in BOOLEAN :
         IF ok
         THEN /\ pc' = [pc EXCEPT ![i] = "collect"]
              /\ container' = [container EXCEPT ![i] = "running"]
              /\ sbomPc' = [sbomPc EXCEPT ![i] = "submitted"]
              /\ logsPc' = [logsPc EXCEPT ![i] = "loop"]
              /\ UNCHANGED events
         ELSE /\ pc' = [pc EXCEPT ![i] = "raised"]
              /\ events' = Met(i, "launch")
              /\ UNCHANGED << container, sbomPc, logsPc >>
    /\ UNCHANGED << callVars, publishVars, raised, config, shotVars, runVars, sbomElapsed, logblobBound, logblob,
                    error_message, sbom, syftRuns, syftRemoves, logsElapsed,
                    logsfound, build_info, screenshot_success, endtests, removes,
                    reportVars >>

(* ----------------------------- generate_sbom --------------------------- *)
\* Lines 490-498: the scanner container is run, outside of any try.
SbomRun(i) ==
    /\ sbomPc[i] = "submitted"
    /\ \E ok \in BOOLEAN :
         IF ok
         THEN /\ sbomPc' = [sbomPc EXCEPT ![i] = "loop"]
              /\ syftRuns' = [syftRuns EXCEPT ![i] = @ + 1]
              /\ UNCHANGED events
         ELSE /\ sbomPc' = [sbomPc EXCEPT ![i] = "raised"]
              /\ events' = Met(i, "sbom_run")
              /\ UNCHANGED syftRuns
    /\ UNCHANGED << callVars, publishVars, raised, config, shotVars, runVars, sbomElapsed, logblobBound, logblob,
                    error_message, sbom, syftRemoves, logsVars, workerVars,
                    reportVars >>

\* while time.time() < t_end
SbomBeforeDeadline(i) == sbomElapsed[i] < sbom_timeout

\* generate_sbom is left: its locals are gone
SbomLeave(i, how) ==
    /\ sbomPc' = [sbomPc EXCEPT ![i] = how]
    /\ sbomElapsed' = [sbomElapsed EXCEPT ![i] = 0]
    /\ logblobBound' = [logblobBound EXCEPT ![i] = FALSE]
    /\ logblob' = [logblob EXCEPT ![i] = {}]
    /\ error_message' = [error_message EXCEPT ![i] = NotFoundMessage]

\* Mutant: an exception of syft.logs() ends generate_sbom as the deadline does
SbomPoll_ErrorIsTerminal(i) ==
    /\ sbomPc[i] = "loop"
    /\ SbomBeforeDeadline(i)
    /\ \/ /\ \E blob \in SyftLogs :
               IF "VERSION" \in blob
               THEN /\ tag_report_tests' = AddTestResult(tag_report_tests, tags[i],
                                               "Create SBOM", "PASS", "-", Measured)
                    /\ syftRemoves' = [syftRemoves EXCEPT ![i] = @ + 1]
                    /\ sbom' = [sbom EXCEPT ![i] = blob]
                    /\ SbomLeave(i, "returned")
               ELSE /\ sbomElapsed' = [sbomElapsed EXCEPT ![i] = @ + 1]
                    /\ logblob' = [logblob EXCEPT ![i] = blob]
                    /\ logblobBound' = [logblobBound EXCEPT ![i] = TRUE]
                    /\ UNCHANGED << tag_report_tests, syftRemoves, sbom, sbomPc,
                                    error_message >>
          /\ UNCHANGED << report_status, events >>
       \/ /\ report_status' = "FAIL"
          /\ tag_report_tests' = AddTestResult(tag_report_tests, tags[i],
                                     "Create SBOM", "FAIL", "APIError", Measured)
          /\ syftRemoves' = [syftRemoves EXCEPT ![i] = @ + 1]
          /\ sbom' = [sbom EXCEPT ![i] = SbomError]
          /\ SbomLeave(i, "returned")
          /\ events' = Met(i, "sbom_timeout")
    /\ UNCHANGED << callVars, publishVars, raised, config, shotVars, runVars, syftRuns, logsVars, workerVars,
                    report_containers >>

\* Lines 499-515: one iteration of the loop. syft.logs() either returns a log
\* or raises; with "VERSION" in the log the PASS result is recorded, the
\* scanner is removed (the call is made whether or not it raises) and the log
\* is returned.
SbomPoll(i) ==
    /\ sbomPc[i] = "loop"
    /\ SbomBeforeDeadline(i)
    /\ \/ \E blob \in SyftLogs :
            IF "VERSION" \in blob
            THEN /\ tag_report_tests' = AddTestResult(tag_report_tests, tags[i],
                                            "Create SBOM", "PASS", "-", Measured)
                 /\ syftRemoves' = [syftRemoves EXCEPT ![i] = @ + 1]
                 /\ sbom' = [sbom EXCEPT ![i] = blob]
                 /\ SbomLeave(i, "returned")
            ELSE /\ sbomElapsed' = [sbomElapsed EXCEPT ![i] = @ + 1]
                 /\ logblob' = [logblob EXCEPT ![i] = blob]
                 /\ logblobBound' = [logblobBound EXCEPT ![i] = TRUE]
                 /\ UNCHANGED << tag_report_tests, syftRemoves, sbom, sbomPc,
                                 error_message >>
       \/ /\ sbomElapsed' = [sbomElapsed EXCEPT ![i] = @ + 1]
          /\ error_message' = [error_message EXCEPT ![i] = "APIError"]
          /\ UNCHANGED << logblob, logblobBound, tag_report_tests, syftRemoves,
                          sbom, sbomPc >>
    /\ UNCHANGED << callVars, publishVars, raised, config, shotVars, runVars, syftRuns, logsVars, workerVars,
                    report_containers, report_status, events >>

\* Mutant: the deadline path of generate_sbom does not set report_status
SbomExit_KeepsStatus(i) ==
    /\ sbomPc[i] = "loop"
    /\ ~SbomBeforeDeadline(i)
    /\ IF ~logblobBound[i]
       THEN /\ SbomLeave(i, "raised")
            /\ events' = Met(i, "sbom_unbound")
            /\ UNCHANGED << report_status, tag_report_tests, syftRemoves, sbom >>
       ELSE /\ UNCHANGED report_status
            /\ tag_report_tests' = AddTestResult(tag_report_tests, tags[i],
                                       "Create SBOM", "FAIL", error_message[i], Measured)
            /\ syftRemoves' = [syftRemoves EXCEPT ![i] = @ + 1]
            /\ sbom' = [sbom EXCEPT ![i] = SbomError]
            /\ SbomLeave(i, "returned")
            /\ events' = Met(i, "sbom_timeout")
    /\ UNCHANGED << callVars, publishVars, raised, config, shotVars, runVars, syftRuns, logsVars, workerVars,
                    report_containers >>

\* Lines 516-523: the loop is left by its deadline. Line 516 reads logblob,
\* which is unbound when no syft.logs() call ever returned: UnboundLocalError
\* leaves generate_sbom before report_status, the FAIL result and the remove.
SbomExit(i) ==
    /\ sbomPc[i] = "loop"
    /\ ~SbomBeforeDeadline(i)
    /\ IF ~logblobBound[i]
       THEN /\ SbomLeave(i, "raised")
            /\ events' = Met(i, "sbom_unbound")
            /\ UNCHANGED << report_status, tag_report_tests, syftRemoves, sbom >>
       ELSE /\ report_status' = "FAIL"
            /\ tag_report_tests' = AddTestResult(tag_report_tests, tags[i],
                                       "Create SBOM", "FAIL", error_message[i], Measured)
            /\ syftRemoves' = [syftRemoves EXCEPT ![i] = @ + 1]
            /\ sbom' = [sbom EXCEPT ![i] = SbomError]
            /\ SbomLeave(i, "returned")
            /\ events' = Met(i, "sbom_timeout")
    /\ UNCHANGED << callVars, publishVars, raised, config, shotVars, runVars, syftRuns, logsVars, workerVars,
                    report_containers >>

(* -------------------------- watch_container_logs ----------------------- *)
\* while time.time() < t_end
LogsBeforeDeadline(i) == logsElapsed[i] < logs_timeout

\* Mutant: watch_container_logs returns True on every path
LogsReturn_AlwaysTrue(i, found) ==
    /\ logsPc' = [logsPc EXCEPT ![i] = "returned"]
    /\ logsfound' = [logsfound EXCEPT ![i] = TRUE]
    /\ logsElapsed' = [logsElapsed EXCEPT ![i] = 0]

\* watch_container_logs returns found: its locals are gone
LogsReturn(i, found) ==
    /\ logsPc' = [logsPc EXCEPT ![i] = "returned"]
    /\ logsfound' = [logsfound EXCEPT ![i] = found]
    /\ logsElapsed' = [logsElapsed EXCEPT ![i] = 0]

\* Mutant: a watcher that finds the marker sets report_status to PASS
LogsPoll_ResetsStatus(i) ==
    /\ logsPc[i] = "loop"
    /\ LogsBeforeDeadline(i)
    /\ \E outcome \in {"marker", "no marker", "APIError"} :
         CASE outcome = "marker" ->
                /\ tag_report_tests' = AddTestResult(tag_report_tests, tags[i],
                                           "Container startup", "PASS", "-", Measured)
                /\ LogsReturn(i, TRUE)
                /\ report_status' = "PASS"
                /\ UNCHANGED events
           [] outcome = "no marker" ->
                /\ logsElapsed' = [logsElapsed EXCEPT ![i] = @ + 1]
                /\ UNCHANGED << tag_report_tests, logsfound, logsPc, report_status,
                                events >>
           [] OTHER ->
                /\ tag_report_tests' = AddTestResult(tag_report_tests, tags[i],
                                           "Container startup", "FAIL",
                                           "INIT NOT FINISHED: APIError", Measured)
                /\ report_status' = "FAIL"
                /\ LogsReturn(i, FALSE)
                /\ events' = Met(i, "logs_error")
    /\ UNCHANGED << callVars, publishVars, raised, config, shotVars, runVars, sbomVars, workerVars, report_containers >>

\* Mutant: an APIError while polling is logged and the watcher polls again
LogsPoll_RetriesOnError(i) ==
    /\ logsPc[i] = "loop"
    /\ LogsBeforeDeadline(i)
    /\ \E outcome \in {"marker", "no marker", "APIError"} :
         CASE outcome = "marker" ->
                /\ tag_report_tests' = AddTestResult(tag_report_tests, tags[i],
                                           "Container startup", "PASS", "-", Measured)
                /\ logsPc' = [logsPc EXCEPT ![i] = "returned"]
                /\ logsfound' = [logsfound EXCEPT ![i] = TRUE]
                /\ logsElapsed' = [logsElapsed EXCEPT ![i] = 0]
                /\ UNCHANGED << report_status, events >>
           [] outcome = "no marker" ->
                /\ logsElapsed' = [logsElapsed EXCEPT ![i] = @ + 1]
                /\ UNCHANGED << tag_report_tests, logsfound, logsPc, report_status,
                                events >>
           [] OTHER ->
                /\ logsElapsed' = [logsElapsed EXCEPT ![i] = @ + 1]
                /\ events' = Met(i, "logs_error")
                /\ UNCHANGED << tag_report_tests, logsfound, logsPc, report_status >>
    /\ UNCHANGED << callVars, publishVars, raised, config, shotVars, runVars, sbomVars, workerVars, report_containers >>

\* Lines 652-665: one iteration. container.logs() returns a log with or
\* without an init-done marker, or raises APIError, which ends the watcher.
LogsPoll(i) ==
    /\ logsPc[i] = "loop"
    /\ LogsBeforeDeadline(i)
    /\ \E outcome \in {"marker", "no marker", "APIError"} :
         CASE outcome = "marker" ->
                /\ tag_report_tests' = AddTestResult(tag_report_tests, tags[i],
                                           "Container startup", "PASS", "-", Measured)
                /\ LogsReturn(i, TRUE)
                /\ UNCHANGED << report_status, events >>
           [] outcome = "no marker" ->
                /\ logsElapsed' = [logsElapsed EXCEPT ![i] = @ + 1]
                /\ UNCHANGED << tag_report_tests, logsfound, logsPc, report_status,
                                events >>
           [] OTHER ->
                /\ tag_report_tests' = AddTestResult(tag_report_tests, tags[i],
                                           "Container startup", "FAIL",
                                           "INIT NOT FINISHED: APIError", Measured)
                /\ report_status' = "FAIL"
                /\ LogsReturn(i, FALSE)
                /\ events' = Met(i, "logs_error")
    /\ UNCHANGED << callVars, publishVars, raised, config, shotVars, runVars, sbomVars, workerVars, report_containers >>

\* Mutant: the watcher's timeout path does not set report_status
LogsExit_KeepsStatus(i) ==
    /\ logsPc[i] = "loop"
    /\ ~LogsBeforeDeadline(i)
    /\ tag_report_tests' = AddTestResult(tag_report_tests, tags[i],
                               "Container startup", "FAIL", "INIT NOT FINISHED", Measured)
    /\ LogsReturn(i, FALSE)
    /\ events' = Met(i, "logs_timeout")
    /\ UNCHANGED << callVars, publishVars, raised, config, shotVars, runVars, sbomVars, workerVars, report_containers,
                    report_status >>

\* Lines 666-670: the deadline has passed.
LogsExit(i) ==
    /\ logsPc[i] = "loop"
    /\ ~LogsBeforeDeadline(i)
    /\ tag_report_tests' = AddTestResult(tag_report_tests, tags[i],
                               "Container startup", "FAIL", "INIT NOT FINISHED", Measured)
    /\ report_status' = "FAIL"
    /\ LogsReturn(i, FALSE)
    /\ events' = Met(i, "logs_timeout")
    /\ UNCHANGED << callVars, publishVars, raised, config, shotVars, runVars, sbomVars, workerVars, report_containers >>

(* ----------------------------- get_build_info -------------------------- *)
\* The dict built at lines 617-625
BuildInfoOk(tag) ==
    [version |-> "1.0", created |-> "2024-08-21", size |-> "275.93MB",
     maintainer |-> "user", builder |-> "node", tag |-> tag, image |-> "linuxserver/test"]

\* The dict built at line 630
BuildInfoError ==
    [version |-> "ERROR", created |-> "ERROR", size |-> "ERROR", maintainer |-> "ERROR"]

\* Lines 326-328 of container_test: leaving the with block waits for both
\* tasks; future_sbom.result() re-raises what generate_sbom raised; otherwise
\* get_build_info reads the labels (a missing label is a KeyError, the
\* runtime may raise APIError: both are caught).
CollectBuildInfo(i) ==
    /\ pc[i] = "collect"
    /\ sbomPc[i] \in {"returned", "raised"}
    /\ logsPc[i] = "returned"
    /\ IF sbomPc[i] = "raised"
       THEN /\ pc' = [pc EXCEPT ![i] = "raised"]
            /\ UNCHANGED << build_info, tag_report_tests, report_status, events >>
       ELSE /\ pc' = [pc EXCEPT ![i] = "decide"]
            /\ \E outcome \in {"ok", "KeyError", "APIError"} :
                 IF outcome = "ok"
                 THEN /\ build_info' = [build_info EXCEPT ![i] = BuildInfoOk(tags[i])]
                      /\ tag_report_tests' = AddTestResult(tag_report_tests, tags[i],
                                                 "Get build info", "PASS", "-", Measured)
                      /\ UNCHANGED << report_status, events >>
                 ELSE /\ build_info' = [build_info EXCEPT ![i] = BuildInfoError]
                      /\ tag_report_tests' = AddTestResult(tag_report_tests, tags[i],
                                                 "Get build info", "FAIL", outcome, Measured)
                      /\ report_status' = "FAIL"
                      /\ events' = Met(i, "build_info")
    /\ UNCHANGED << callVars, publishVars, raised, config, shotVars, runVars, sbomVars, logsVars, container,
                    screenshot_success, endtests, removes, report_containers >>

\* Mutant: the early exit on `not logsfound` is missing
EarlyExit_IgnoresWatcher(i) ==
    \/ build_info[i]["version"] = "ERROR"
    \/ sbom[i] = SbomError

\* Mutant: the early exit on `sbom == "ERROR"` is missing
EarlyExit_IgnoresSbom(i) ==
    \/ ~logsfound[i]
    \/ build_info[i]["version"] = "ERROR"

\* Mutant: the SBOM check is inverted (sbom != "ERROR")
EarlyExit_SbomInverted(i) ==
    \/ ~logsfound[i]
    \/ build_info[i]["version"] = "ERROR"
    \/ sbom[i] # SbomError

\* Mutant: the early exit on the build-info error marker is missing
EarlyExit_IgnoresBuildInfo(i) ==
    \/ ~logsfound[i]
    \/ sbom[i] = SbomError

\* Mutant: only the watcher's result leads to an early exit
EarlyExit_OnlyWatcher(i) == ~logsfound[i]

\* Lines 330-343: one of the three early exits of container_test is taken
EarlyExit(i) ==
    \/ ~logsfound[i]
    \/ build_info[i]["version"] = "ERROR"
    \/ sbom[i] = SbomError

(* ----------------------------- take_screenshot ------------------------- *)
\* Mutant: take_screenshot does not look at self.screenshot
TakeScreenshot_IgnoresSwitch(i) ==
    /\ pc[i] = "decide"
    /\ ~EarlyExit(i)
    /\ pc' = [pc EXCEPT ![i] = "finish"]
    /\ \E outcome \in {"ok", "CONNECTION ERROR", "TIMEOUT", "UNKNOWN"} :
         IF outcome = "ok"
         THEN /\ screenshot_success' = [screenshot_success EXCEPT ![i] = TRUE]
              /\ tag_report_tests' = AddTestResult(tag_report_tests, tags[i],
                                         "Get screenshot", "PASS", "-", Measured)
              /\ UNCHANGED << report_status, events >>
         ELSE /\ screenshot_success' = [screenshot_success EXCEPT ![i] = FALSE]
              /\ tag_report_tests' = AddTestResult(tag_report_tests, tags[i],
                                         "Get screenshot", "FAIL", outcome, Measured)
              /\ report_status' = "FAIL"
              /\ events' = Met(i, "screenshot")
    /\ UNCHANGED << callVars, publishVars, raised, config, shotVars, runVars, sbomVars, logsVars, container, build_info,
                    endtests, removes, report_containers >>

\* Line 346 with take_screenshot: nothing is done when screenshots are
\* disabled; otherwise the PASS result is recorded on success and, on every
\* failure (connection error, timeout, any other exception), the FAIL result
\* is recorded and report_status set to FAIL.
TakeScreenshot(i) ==
    /\ pc[i] = "decide"
    /\ ~EarlyExit(i)
    /\ pc' = [pc EXCEPT ![i] = "finish"]
    /\ IF ~screenshot
       THEN /\ screenshot_success' = [screenshot_success EXCEPT ![i] = TRUE]
            /\ UNCHANGED << tag_report_tests, report_status, events >>
       ELSE \E outcome \in {"ok", "CONNECTION ERROR", "TIMEOUT", "UNKNOWN"} :
              IF outcome = "ok"
              THEN /\ screenshot_success' = [screenshot_success EXCEPT ![i] = TRUE]
                   /\ tag_report_tests' = AddTestResult(tag_report_tests, tags[i],
                                              "Get screenshot", "PASS", "-", Measured)
                   /\ UNCHANGED << report_status, events >>
              ELSE /\ screenshot_success' = [screenshot_success EXCEPT ![i] = FALSE]
                   /\ tag_report_tests' = AddTestResult(tag_report_tests, tags[i],
                                              "Get screenshot", "FAIL", outcome, Measured)
                   /\ report_status' = "FAIL"
                   /\ events' = Met(i, "screenshot")
    /\ UNCHANGED << callVars, publishVars, raised, config, shotVars, runVars, sbomVars, logsVars, container, build_info,
                    endtests, removes, report_containers >>

(* --------------------------------- _endtest ---------------------------- *)
\* Mutant: a failed screenshot fails the tag on every platform
TestSuccess_AnyPlatform(i) ==
    IF pc[i] = "decide" THEN FALSE ELSE screenshot_success[i]

\* The test_success argument container_test passes to _endtest
TestSuccess(i) ==
    IF pc[i] = "decide" THEN FALSE
    ELSE ~(~screenshot_success[i] /\ get_platform(tags[i]) = "amd64")

\* str.upper() on the platforms
Upper(platform) ==
    CASE platform = "amd64" -> "AMD64"
      [] platform = "arm64" -> "ARM64"
      [] platform = "arm" -> "ARM"
      [] platform = "riscv64" -> "RISCV64"

\* Lines 378-398: the entry written to report_containers[tag]. test_results
\* is a reference to tag_report_tests[tag]["test"], read through TestResults.
TagReportOf(tag, build, packages, test_success, start_time) ==
    LET dotnet == IF "icu-libs" \in packages /\ InStr("arm32", tag)
                  THEN "May be a .NET app. Service might not start on ARM32 with QEMU" ELSE ""
        uwsgi  == IF "uwsgi" \in packages /\ InStr("arm", tag)
                  THEN "This image uses uWSGI and might not start on ARM/QEMU" ELSE ""
    IN  [sysinfo |-> packages,
         warnings |-> [dotnet |-> dotnet, uwsgi |-> uwsgi],
         build_info |-> build,
         test_success |-> test_success,
         runtime |-> Runtime(start_time),
         platform |-> Upper(get_platform(tag)),
         has_warnings |-> (dotnet # "" \/ uwsgi # "")]

\* report_containers[tag]["test_results"]
TestResults(tag) == tag_report_tests[tag]

\* container_test is left: its locals and its two futures are gone
WorkerLeave(i, how) ==
    /\ pc' = [pc EXCEPT ![i] = how]
    /\ build_info' = [build_info EXCEPT ![i] = EmptyDict]
    /\ screenshot_success' = [screenshot_success EXCEPT ![i] = FALSE]

\* Mutant: an APIError of container.remove leaves _endtest
EndTest_RemoveBlocks(i) ==
    /\ \/ pc[i] = "decide" /\ EarlyExit(i)
       \/ pc[i] = "finish"
    /\ endtests' = [endtests EXCEPT ![i] = @ + 1]
    /\ \E outcome \in {"ok", "logs APIError", "remove APIError"} :
         IF outcome # "ok"
         THEN /\ WorkerLeave(i, "raised")
              /\ events' = Met(i, IF outcome = "logs APIError" THEN "endtest_logs"
                                  ELSE "remove")
              /\ removes' = [removes EXCEPT ![i] =
                                IF outcome = "logs APIError" THEN @ ELSE @ + 1]
              /\ UNCHANGED << container, report_containers >>
         ELSE /\ WorkerLeave(i, "done")
              /\ removes' = [removes EXCEPT ![i] = @ + 1]
              /\ container' = [container EXCEPT ![i] = "removed"]
              /\ UNCHANGED events
              /\ report_containers' = DictSet(report_containers, tags[i],
                     TagReportOf(tags[i], build_info[i], sbom[i], TestSuccess(i), Measured))
    /\ UNCHANGED << callVars, publishVars, raised, config, shotVars, runVars, sbomVars, logsVars, tag_report_tests,
                    report_status >>

\* Mutant: _endtest can be run again for a worker that has finalized
EndTest_Twice(i) ==
    /\ \/ pc[i] = "decide" /\ EarlyExit(i)
       \/ pc[i] = "finish"
       \/ pc[i] = "done" /\ endtests[i] < 2
    /\ endtests' = [endtests EXCEPT ![i] = @ + 1]
    /\ WorkerLeave(i, "done")
    /\ removes' = [removes EXCEPT ![i] = @ + 1]
    /\ container' = [container EXCEPT ![i] = "removed"]
    /\ report_containers' = DictSet(report_containers, tags[i],
           TagReportOf(tags[i], build_info[i], sbom[i], TestSuccess(i), Measured))
    /\ UNCHANGED << callVars, publishVars, raised, config, shotVars, runVars, sbomVars, logsVars, tag_report_tests,
                    report_status, events >>

\* _endtest, called from one of the four call sites of container_test. The
\* final container.logs() is outside of any try: an APIError there leaves
\* _endtest and the worker. An APIError of container.remove is only logged.
EndTest(i) ==
    /\ \/ pc[i] = "decide" /\ EarlyExit(i)
       \/ pc[i] = "finish"
    /\ endtests' = [endtests EXCEPT ![i] = @ + 1]
    /\ \E outcome \in {"ok", "logs APIError", "remove APIError"} :
         IF outcome = "logs APIError"
         THEN /\ WorkerLeave(i, "raised")
              /\ events' = Met(i, "endtest_logs")
              /\ UNCHANGED << container, removes, report_containers >>
         ELSE /\ WorkerLeave(i, "done")
              /\ removes' = [removes EXCEPT ![i] = @ + 1]
              /\ container' = [container EXCEPT ![i] =
                                  IF outcome = "ok" THEN "removed" ELSE @]
              /\ events' = IF outcome = "ok" THEN events ELSE Met(i, "remove")
              /\ report_containers' = DictSet(report_containers, tags[i],
                     TagReportOf(tags[i], build_info[i], sbom[i], TestSuccess(i), Measured))
    /\ UNCHANGED << callVars, publishVars, raised, config, shotVars, runVars, sbomVars, logsVars, tag_report_tests,
                    report_status >>

(* --------------------------------- CI.run ------------------------------ *)
\* Mutant: map returns once every call has begun
Finished_Dispatched(i) == pc[i] # "queued"

\* A container_test call has ended, by return or by an exception
Finished(i) == pc[i] \in {"done", "raised"}

\* thread_pool.map returns once every container_test call has ended, and
\* re-raises an exception of a call: run is left before the display is
\* started, and run_test is left with it.
MapReturns ==
    /\ pcRun = "map"
    /\ \A i \in Workers : Finished(i)
    /\ IF \E i \in Workers : pc[i] = "raised"
       THEN pcRun' = "raised" /\ pcMain' = "raised" /\ raised' = "worker exception"
       ELSE pcRun' = "display" /\ UNCHANGED << pcMain, raised >>
    /\ UNCHANGED << callVars, publishVars, config, shotVars, display, sbomVars, logsVars, workerVars, reportVars,
                    events >>

\* Lines 287-288
DisplayStart ==
    /\ pcRun = "display"
    /\ display' = "started"
    /\ pcRun' = "join"
    /\ UNCHANGED << callVars, publishVars, raised, config, shotVars, pcMain, sbomVars, logsVars, workerVars, reportVars,
                    events >>

\* Lines 289-292: close, join (no task is left to wait for) and display.stop
DisplayStop ==
    /\ pcRun = "join"
    /\ display' = "stopped"
    /\ pcRun' = "returned"
    /\ UNCHANGED << callVars, publishVars, raised, config, shotVars, pcMain, sbomVars, logsVars, workerVars, reportVars,
                    events >>

(* -------------------------------- run_test ----------------------------- *)
\* CIReportResult.PASS, as report_status holds it
ReportPASS == "PASS"

\* Mutant: the override does not look at the tag's platform
OverrideApplies_AnyTag(tag) ==
    report_containers[tag]["test_success"] = TRUE

\* The condition of line 12 of test_build.py for one key of report_containers
OverrideApplies(tag) ==
    StartsWith(tag, PlatformAMD64) /\ report_containers[tag]["test_success"] = TRUE

\* Lines 11-13 of test_build.py: the loop over report_containers.keys()
RunTestOverride ==
    /\ pcMain = "run"
    /\ pcRun = "returned"
    /\ pcMain' = "publish"
    /\ report_status' = IF \E tag \in DOMAIN report_containers : OverrideApplies(tag)
                        THEN ReportPASS ELSE report_status
    /\ UNCHANGED << callVars, publishVars, raised, config, shotVars, pcRun, display, sbomVars, logsVars, workerVars,
                    tag_report_tests, report_containers, events >>

(* ------------------------------ log_upload ----------------------------- *)
\* What a log_upload call can meet: nothing, a failure of one of its
\* upload_file calls, or a missing ci.log
LogUploadOutcomes == {"ok", "FileNotFoundError"} \cup UploadFailures

\* The exceptions log_upload catches (line 793)
LogUploadCatches == {"S3UploadFailedError", "ClientError", "FileNotFoundError"}

\* The exception a log_upload call that met e is left by ("none": it returns)
LogUploadRaises(e) == IF e = "ok" \/ e \in LogUploadCatches THEN "none" ELSE e

(* --------------------------- run_test: publishing ---------------------- *)
\* Line 16 of test_build.py: report_render has no try; the json round trip of
\* report_containers sorts the keys of the dicts, which leaves them equal.
ReportRender ==
    /\ pcMain = "publish"
    /\ \E ok \in BOOLEAN :
         IF ok
         THEN /\ rendered' = rendered \cup {"index.html"}
              /\ pcMain' = "badge"
              /\ UNCHANGED raised
         ELSE /\ pcMain' = "raised"
              /\ raised' = "render exception"
              /\ UNCHANGED rendered
    /\ UNCHANGED << callVars, uploaded, upload_failed, log_uploads, config, shotVars, pcRun,
                    display, sbomVars, logsVars, workerVars, reportVars, events >>

\* Line 17: badge_render logs the exceptions of its body
BadgeRender ==
    /\ pcMain = "badge"
    /\ pcMain' = "json"
    /\ \E ok \in BOOLEAN :
         rendered' = IF ok THEN rendered \cup {"badge.svg"} ELSE rendered
    /\ UNCHANGED << callVars, uploaded, upload_failed, log_uploads, raised, config, shotVars,
                    pcRun, display, sbomVars, logsVars, workerVars, reportVars,
                    events >>

\* Line 18: json_render logs the exceptions of its body
JsonRender ==
    /\ pcMain = "json"
    /\ pcMain' = "upload"
    /\ \E ok \in BOOLEAN :
         rendered' = IF ok THEN rendered \cup {"report.json"} ELSE rendered
    /\ UNCHANGED << callVars, uploaded, upload_failed, log_uploads, raised, config, shotVars,
                    pcRun, display, sbomVars, logsVars, workerVars, reportVars,
                    events >>

\* Line 19 with report_upload, lines 726-737: the files of outdir are uploaded
\* in the order os.listdir gives them. When upload_file raises one of the
\* exceptions of line 733 for the file f, the files listed before it are
\* uploaded, log_upload is called and CIError is raised, unless log_upload
\* itself is left by an exception.
ReportUpload ==
    /\ pcMain = "upload"
    /\ \/ /\ uploaded' = rendered
          /\ pcMain' = "exit"
          /\ UNCHANGED << upload_failed, log_uploads, raised >>
       \/ \E f \in rendered, l \in LogUploadOutcomes :
          \E before \in SUBSET (rendered \ {f}) :
             /\ uploaded' = before
             /\ upload_failed' = f
             /\ log_uploads' = Append(log_uploads, l)
             /\ pcMain' = "raised"
             /\ raised' = IF LogUploadRaises(l) = "none"
                          THEN "CIError: Upload Error" ELSE LogUploadRaises(l)
    /\ UNCHANGED << callVars, rendered, config, shotVars, pcRun, display, sbomVars, logsVars,
                    workerVars, reportVars, events >>

\* Mutant: run_test returns whatever report_status is
RunTestExit_IgnoresStatus ==
    /\ pcMain = "exit"
    /\ \E l \in LogUploadOutcomes :
         /\ log_uploads' = Append(log_uploads, l)
         /\ IF LogUploadRaises(l) # "none"
            THEN pcMain' = "raised" /\ raised' = LogUploadRaises(l)
            ELSE pcMain' = "returned" /\ UNCHANGED raised
    /\ UNCHANGED << callVars, rendered, uploaded, upload_failed, config, shotVars, pcRun,
                    display, sbomVars, logsVars, workerVars, reportVars, events >>

\* Lines 20-25: log_upload is called on both branches; run_test returns when
\* report_status is PASS and raises CIError otherwise.
RunTestExit ==
    /\ pcMain = "exit"
    /\ \E l \in LogUploadOutcomes :
         /\ log_uploads' = Append(log_uploads, l)
         /\ IF LogUploadRaises(l) # "none"
            THEN pcMain' = "raised" /\ raised' = LogUploadRaises(l)
            ELSE IF report_status = ReportPASS
                 THEN pcMain' = "returned" /\ UNCHANGED raised
                 ELSE pcMain' = "raised" /\ raised' = "CIError: CI Tests did not PASS!"
    /\ UNCHANGED << callVars, rendered, uploaded, upload_failed, config, shotVars, pcRun,
                    display, sbomVars, logsVars, workerVars, reportVars, events >>

(* ------------------------ functions called on their own ---------------- *)
\* get_platform(tag)
CallGetPlatform ==
    /\ Len(calls) < MaxCalls
    /\ \E tag \in PlatformTags :
         /\ calls' = Append(calls, [fn |-> "get_platform", tag |-> tag])
         /\ results' = Append(results, get_platform(tag))
    /\ UNCHANGED << config, shotVars, runVars, sbomVars, logsVars, workerVars, reportVars,
                    events, publishVars, raised >>

\* _add_test_result(tag, test, status, message, start_time)
CallAddTestResult ==
    /\ Len(calls) < MaxCalls
    /\ \E tag \in TagSet \cup {"unknown"}, test \in ResultTests,
          status \in ResultStatuses, message \in ResultMessages,
          start_time \in ResultStartTimes :
         /\ calls' = Append(calls, [fn |-> "_add_test_result", tag |-> tag,
                                    test |-> test, status |-> status,
                                    message |-> message, start_time |-> start_time])
         /\ results' = Append(results, IF AddTestResultRaises(tag, status)
                                       THEN "ValueError" ELSE "None")
         /\ tag_report_tests' = AddTestResult(tag_report_tests, tag, test, status,
                                              message, start_time)
    /\ UNCHANGED << config, shotVars, runVars, sbomVars, logsVars, workerVars,
                    report_containers, report_status, events, publishVars, raised >>

(* ------------------------------ specification -------------------------- *)
Next ==
    \/ \E i \in Workers : Launch(i)
    \/ \E i \in Workers : SbomRun(i)
    \/ \E i \in Workers : SbomPoll(i)
    \/ \E i \in Workers : SbomExit(i)
    \/ \E i \in Workers : LogsPoll(i)
    \/ \E i \in Workers : LogsExit(i)
    \/ \E i \in Workers : CollectBuildInfo(i)
    \/ \E i \in Workers : TakeScreenshot(i)
    \/ \E i \in Workers : EndTest(i)
    \/ MapReturns
    \/ DisplayStart
    \/ DisplayStop
    \/ RunTestOverride

Spec == Init /\ [][Next]_vars

\* The CI object after construction, for one configuration
InitConstructed ==
    /\ Init
    /\ tags = <<"amd64-1.0", "arm64-1.0">>
    /\ sbom_timeout = MaxSbomTimeout
    /\ logs_timeout = MaxLogsTimeout
    /\ screenshot = FALSE

\* A run with TAGS="amd64-1.0|amd64-1.0": CI.__init__ splits TAGS on "|" and
\* keeps every item (line 269), and CI.run maps container_test over the list.
InitDuplicates ==
    /\ tags = <<"amd64-1.0", "amd64-1.0">>
    /\ sbom_timeout = MaxSbomTimeout
    /\ logs_timeout = MaxLogsTimeout
    /\ screenshot \in BOOLEAN
    /\ ACCESS_KEY = DefaultKey
    /\ SECRET_KEY = DefaultKey
    /\ screenshot_timeout = MaxScreenshotTimeout
    /\ shotPc = "idle"
    /\ shotElapsed = 0
    /\ png = {}
    /\ sessions = 0
    /\ quits = 0
    /\ quitErrors = 0
    /\ pcMain = "run"
    /\ pcRun = "map"
    /\ display = "none"
    /\ pc = [i \in Workers |-> "queued"]
    /\ container = [i \in Workers |-> "none"]
    /\ sbomPc = [i \in Workers |-> "idle"]
    /\ sbomElapsed = [i \in Workers |-> 0]
    /\ logblobBound = [i \in Workers |-> FALSE]
    /\ logblob = [i \in Workers |-> {}]
    /\ error_message = [i \in Workers |-> NotFoundMessage]
    /\ sbom = [i \in Workers |-> {}]
    /\ syftRuns = [i \in Workers |-> 0]
    /\ syftRemoves = [i \in Workers |-> 0]
    /\ logsPc = [i \in Workers |-> "idle"]
    /\ logsElapsed = [i \in Workers |-> 0]
    /\ logsfound = [i \in Workers |-> FALSE]
    /\ build_info = [i \in Workers |-> EmptyDict]
    /\ screenshot_success = [i \in Workers |-> FALSE]
    /\ endtests = [i \in Workers |-> 0]
    /\ removes = [i \in Workers |-> 0]
    /\ tag_report_tests = [t \in TagSet |-> EmptyDict]
    /\ report_containers = EmptyDict
    /\ report_status = "PASS"
    /\ events = [i \in Workers |-> {}]
    /\ rendered = {}
    /\ uploaded = {}
    /\ upload_failed = "none"
    /\ log_uploads = << >>
    /\ raised = "none"
    /\ calls = << >>
    /\ results = << >>

SpecDuplicates == InitDuplicates /\ [][Next]_vars

\* A call of syft.logs() in generate_sbom that never returns
SbomHang(i) ==
    /\ sbomPc[i] = "loop"
    /\ SbomBeforeDeadline(i)
    /\ sbomPc' = [sbomPc EXCEPT ![i] = "hung"]
    /\ UNCHANGED << callVars, publishVars, raised, config, shotVars, runVars, sbomElapsed,
                    logblobBound, logblob, error_message, sbom, syftRuns,
                    syftRemoves, logsVars, workerVars, reportVars, events >>

\* A call of container.logs() in watch_container_logs that never returns
LogsHang(i) ==
    /\ logsPc[i] = "loop"
    /\ LogsBeforeDeadline(i)
    /\ logsPc' = [logsPc EXCEPT ![i] = "hung"]
    /\ UNCHANGED << callVars, publishVars, raised, config, shotVars, runVars, sbomVars,
                    logsElapsed, logsfound, workerVars, reportVars, events >>

\* A run of one tag in which a collector task may hang. Leaving the with block
\* of line 322 shuts the executor down with wait=True, so container_test
\* reaches the result() calls of lines 326-327 (CollectBuildInfo) only when
\* both tasks have ended. Every thread that can take a step takes it.
InitHang == Init /\ tags = <<"arm32v7-1.0">>

NextHang ==
    \/ Next
    \/ \E i \in Workers : SbomHang(i)
    \/ \E i \in Workers : LogsHang(i)

SpecHang == InitHang /\ [][NextHang]_vars /\ WF_vars(NextHang)

\* CustomLogFormatter.format(record)
CallFormat ==
    /\ Len(results) < Len(calls)
    /\ calls[Len(results) + 1]["fn"] = "format"
    /\ results' = Append(results, format(ACCESS_KEY, SECRET_KEY, calls[Len(results) + 1]))
    /\ UNCHANGED << calls, config, shotVars, runVars, sbomVars, logsVars, workerVars,
                    reportVars, events, publishVars, raised >>

\* The formatter on its own: the two keys are read from the environment when
\* the class is defined, and one record is formatted
InitLogger ==
    /\ tags = <<"amd64-1.0", "arm64-1.0">>
    /\ sbom_timeout = MaxSbomTimeout
    /\ logs_timeout = MaxLogsTimeout
    /\ screenshot = FALSE
    /\ ACCESS_KEY \in Keys
    /\ SECRET_KEY \in Keys
    /\ screenshot_timeout = MaxScreenshotTimeout
    /\ shotPc = "idle"
    /\ shotElapsed = 0
    /\ png = {}
    /\ sessions = 0
    /\ quits = 0
    /\ quitErrors = 0
    /\ pcMain = "run"
    /\ pcRun = "map"
    /\ display = "none"
    /\ pc = [i \in Workers |-> "queued"]
    /\ container = [i \in Workers |-> "none"]
    /\ sbomPc = [i \in Workers |-> "idle"]
    /\ sbomElapsed = [i \in Workers |-> 0]
    /\ logblobBound = [i \in Workers |-> FALSE]
    /\ logblob = [i \in Workers |-> {}]
    /\ error_message = [i \in Workers |-> NotFoundMessage]
    /\ sbom = [i \in Workers |-> {}]
    /\ syftRuns = [i \in Workers |-> 0]
    /\ syftRemoves = [i \in Workers |-> 0]
    /\ logsPc = [i \in Workers |-> "idle"]
    /\ logsElapsed = [i \in Workers |-> 0]
    /\ logsfound = [i \in Workers |-> FALSE]
    /\ build_info = [i \in Workers |-> EmptyDict]
    /\ screenshot_success = [i \in Workers |-> FALSE]
    /\ endtests = [i \in Workers |-> 0]
    /\ removes = [i \in Workers |-> 0]
    /\ tag_report_tests = [t \in TagSet |-> EmptyDict]
    /\ report_containers = EmptyDict
    /\ report_status = "PASS"
    /\ events = [i \in Workers |-> {}]
    /\ rendered = {}
    /\ uploaded = {}
    /\ upload_failed = "none"
    /\ log_uploads = << >>
    /\ raised = "none"
    /\ \E msg \in Messages, exc_text \in ExcTexts :
          calls = << [fn |-> "format", msg |-> msg, exc_text |-> exc_text] >>
    /\ results = << >>

SpecLogger == InitLogger /\ [][CallFormat]_vars

\* SetEnvs._split_key_value_string(kv, make_list)
CallSplit ==
    /\ Len(results) < Len(calls)
    /\ calls[Len(results) + 1]["fn"] = "_split_key_value_string"
    /\ results' = Append(results,
            _split_key_value_string(calls[Len(results) + 1]["kv"],
                                    calls[Len(results) + 1]["make_list"]))
    /\ UNCHANGED << calls, config, shotVars, runVars, sbomVars, logsVars, workerVars,
                    reportVars, events, publishVars, raised >>

\* _split_key_value_string on its own: one call on a key/value string
InitSplit ==
    /\ tags = <<"amd64-1.0", "arm64-1.0">>
    /\ sbom_timeout = MaxSbomTimeout
    /\ logs_timeout = MaxLogsTimeout
    /\ screenshot = FALSE
    /\ ACCESS_KEY = DefaultKey
    /\ SECRET_KEY = DefaultKey
    /\ screenshot_timeout = MaxScreenshotTimeout
    /\ shotPc = "idle"
    /\ shotElapsed = 0
    /\ png = {}
    /\ sessions = 0
    /\ quits = 0
    /\ quitErrors = 0
    /\ pcMain = "run"
    /\ pcRun = "map"
    /\ display = "none"
    /\ pc = [i \in Workers |-> "queued"]
    /\ container = [i \in Workers |-> "none"]
    /\ sbomPc = [i \in Workers |-> "idle"]
    /\ sbomElapsed = [i \in Workers |-> 0]
    /\ logblobBound = [i \in Workers |-> FALSE]
    /\ logblob = [i \in Workers |-> {}]
    /\ error_message = [i \in Workers |-> NotFoundMessage]
    /\ sbom = [i \in Workers |-> {}]
    /\ syftRuns = [i \in Workers |-> 0]
    /\ syftRemoves = [i \in Workers |-> 0]
    /\ logsPc = [i \in Workers |-> "idle"]
    /\ logsElapsed = [i \in Workers |-> 0]
    /\ logsfound = [i \in Workers |-> FALSE]
    /\ build_info = [i \in Workers |-> EmptyDict]
    /\ screenshot_success = [i \in Workers |-> FALSE]
    /\ endtests = [i \in Workers |-> 0]
    /\ removes = [i \in Workers |-> 0]
    /\ tag_report_tests = [t \in TagSet |-> EmptyDict]
    /\ report_containers = EmptyDict
    /\ report_status = "PASS"
    /\ events = [i \in Workers |-> {}]
    /\ rendered = {}
    /\ uploaded = {}
    /\ upload_failed = "none"
    /\ log_uploads = << >>
    /\ raised = "none"
    /\ \E kv \in KVStrings, make_list \in BOOLEAN :
          calls = << [fn |-> "_split_key_value_string", kv |-> kv, make_list |-> make_list] >>
    /\ results = << >>

SpecSplit == InitSplit /\ [][CallSplit]_vars

(* ------------------------ take_screenshot, in detail -------------------- *)
\* The message prefix of the except clause that catches an exception
\* (lines 866-883)
ShotMessage(error) ==
    CASE error = "ConnectionError" -> "CONNECTION ERROR"
      [] error = "TimeoutException" -> "TIMEOUT"
      [] OTHER -> "UNKNOWN"

\* One of the three outer except clauses: the FAIL result is recorded,
\* report_status is set and (False, browser_logs) is returned
ShotFails(tag, error) ==
    /\ tag_report_tests' = AddTestResult(tag_report_tests, tag, "Get screenshot",
                                         "FAIL", ShotMessage(error), Measured)
    /\ report_status' = "FAIL"
    /\ results' = Append(results, FALSE)
    /\ shotPc' = "idle"
    /\ shotElapsed' = 0

\* Lines 887-892, the finally clause: a driver that is bound is quit, and
\* an exception of quit is logged only
ShotFinally(bound) ==
    IF bound
    THEN /\ quits' = quits + 1
         /\ \E failed \in BOOLEAN :
              quitErrors' = IF failed THEN quitErrors + 1 ELSE quitErrors
    ELSE UNCHANGED << quits, quitErrors >>

\* Mutant: the screenshot file is not looked for
FilePresent_Unchecked(tag, files) == TRUE

\* os.path.isfile(f"{self.outdir}/{tag}.png")
FilePresent(tag, files) == tag \in files

\* Lines 831-845: take_screenshot is called. With screenshots disabled it
\* returns (True, ""). Otherwise setup_driver (943-961) creates the session
\* with webdriver.Chrome, which may raise, and then configures it
\* (set_page_load_timeout, set_window_size), which may raise too: the session
\* exists then, but setup_driver has not returned it and driver is still
\* None. After setup_driver the container is reloaded, which may raise
\* APIError with driver bound. Each of the exceptions ends the call in the
\* last except clause.
CallTakeScreenshot ==
    /\ shotPc = "idle"
    /\ Len(calls) < MaxCalls
    /\ \E tag \in TagSet :
         /\ calls' = Append(calls, [fn |-> "take_screenshot", tag |-> tag])
         /\ IF ~screenshot
            THEN /\ results' = Append(results, TRUE)
                 /\ UNCHANGED << shotPc, shotElapsed, tag_report_tests, report_status,
                                 sessions, quits, quitErrors >>
            ELSE \E outcome \in {"ok", "Chrome", "configure", "APIError"} :
                   /\ sessions' = IF outcome = "Chrome" THEN sessions ELSE sessions + 1
                   /\ IF outcome = "ok"
                      THEN /\ shotPc' = "loop"
                           /\ shotElapsed' = 0
                           /\ UNCHANGED << results, tag_report_tests, report_status,
                                           quits, quitErrors >>
                      ELSE /\ ShotFails(tag, IF outcome = "APIError" THEN "APIError"
                                             ELSE "WebDriverException")
                           /\ ShotFinally(outcome = "APIError")
    /\ UNCHANGED << png, config, runVars, sbomVars, logsVars, workerVars,
                    report_containers, events, publishVars, raised >>

\* Lines 846-864: one attempt, begun before the deadline. The probe fails
\* (ConnectionError), the navigation fails (TimeoutException or another
\* WebDriverException), or get_screenshot_as_file writes the file or does not;
\* without the file FileNotFoundError is raised. After a failure the loop
\* sleeps, then re-raises the error if the deadline has passed, and otherwise
\* goes back to the loop condition, which reads the clock again.
ShotAttempt ==
    /\ shotPc = "loop"
    /\ shotElapsed < screenshot_timeout
    /\ LET tag == calls[Len(calls)]["tag"]
       IN  \E outcome \in {"written", "not written", "ConnectionError",
                           "TimeoutException", "WebDriverException"} :
             LET files == IF outcome = "written" THEN png \cup {tag} ELSE png
                 error == IF outcome \in {"written", "not written"}
                          THEN IF FilePresent(tag, files) THEN "none"
                               ELSE "FileNotFoundError"
                          ELSE outcome
             IN  /\ png' = files
                 /\ IF error = "none"
                    THEN /\ tag_report_tests' = AddTestResult(tag_report_tests, tag,
                                                    "Get screenshot", "PASS", "-", Measured)
                         /\ results' = Append(results, TRUE)
                         /\ shotPc' = "idle"
                         /\ shotElapsed' = 0
                         /\ ShotFinally(TRUE)
                         /\ UNCHANGED report_status
                    ELSE IF shotElapsed + 1 >= screenshot_timeout
                         THEN ShotFails(tag, error) /\ ShotFinally(TRUE)
                         ELSE /\ \E d \in 1..2 : shotElapsed' = shotElapsed + d
                              /\ UNCHANGED << shotPc, results, tag_report_tests,
                                              report_status, quits, quitErrors >>
    /\ UNCHANGED << calls, sessions, config, runVars, sbomVars, logsVars, workerVars,
                    report_containers, events, publishVars, raised >>

\* Line 865: the loop condition fails, TimeoutException is raised
ShotExit ==
    /\ shotPc = "loop"
    /\ shotElapsed >= screenshot_timeout
    /\ ShotFails(calls[Len(calls)]["tag"], "TimeoutException")
    /\ ShotFinally(TRUE)
    /\ UNCHANGED << calls, png, sessions, config, runVars, sbomVars, logsVars, workerVars,
                    report_containers, events, publishVars, raised >>

\* take_screenshot on its own: calls on the tags of a constructed CI object
InitScreenshot ==
    /\ tags = <<"amd64-1.0", "arm64-1.0">>
    /\ sbom_timeout = MaxSbomTimeout
    /\ logs_timeout = MaxLogsTimeout
    /\ screenshot \in BOOLEAN
    /\ ACCESS_KEY = DefaultKey
    /\ SECRET_KEY = DefaultKey
    /\ screenshot_timeout \in 0..MaxScreenshotTimeout
    /\ shotPc = "idle"
    /\ shotElapsed = 0
    /\ png = {}
    /\ sessions = 0
    /\ quits = 0
    /\ quitErrors = 0
    /\ pcMain = "run"
    /\ pcRun = "map"
    /\ display = "none"
    /\ pc = [i \in Workers |-> "queued"]
    /\ container = [i \in Workers |-> "none"]
    /\ sbomPc = [i \in Workers |-> "idle"]
    /\ sbomElapsed = [i \in Workers |-> 0]
    /\ logblobBound = [i \in Workers |-> FALSE]
    /\ logblob = [i \in Workers |-> {}]
    /\ error_message = [i \in Workers |-> NotFoundMessage]
    /\ sbom = [i \in Workers |-> {}]
    /\ syftRuns = [i \in Workers |-> 0]
    /\ syftRemoves = [i \in Workers |-> 0]
    /\ logsPc = [i \in Workers |-> "idle"]
    /\ logsElapsed = [i \in Workers |-> 0]
    /\ logsfound = [i \in Workers |-> FALSE]
    /\ build_info = [i \in Workers |-> EmptyDict]
    /\ screenshot_success = [i \in Workers |-> FALSE]
    /\ endtests = [i \in Workers |-> 0]
    /\ removes = [i \in Workers |-> 0]
    /\ tag_report_tests = [t \in TagSet |-> EmptyDict]
    /\ report_containers = EmptyDict
    /\ report_status = "PASS"
    /\ events = [i \in Workers |-> {}]
    /\ rendered = {}
    /\ uploaded = {}
    /\ upload_failed = "none"
    /\ log_uploads = << >>
    /\ raised = "none"
    /\ calls = << >>
    /\ results = << >>

NextScreenshot == CallTakeScreenshot \/ ShotAttempt \/ ShotExit

SpecScreenshot == InitScreenshot /\ [][NextScreenshot]_vars

\* _endtest(container, tag, build_info, packages, test_success, start_time),
\* for what it writes to report_containers[tag]
CallEndTest ==
    /\ Len(calls) = 0
    /\ \E tag \in AdvisoryTags, packages \in PackageLists, test_success \in BOOLEAN :
         /\ calls' = Append(calls, [fn |-> "_endtest", tag |-> tag,
                                    packages |-> packages, test_success |-> test_success])
         /\ results' = Append(results,
                TagReportOf(tag, BuildInfoOk(tag), packages, test_success, Measured))
    /\ UNCHANGED << config, shotVars, runVars, sbomVars, logsVars, workerVars, reportVars,
                    events, publishVars, raised >>

\* The TagReport of _endtest on its own
SpecAdvisory == InitConstructed /\ [][CallEndTest]_vars

\* get_platform on its own
SpecPlatform == InitConstructed /\ [][CallGetPlatform]_vars

\* _add_test_result on its own
SpecResults == InitConstructed /\ [][CallAddTestResult]_vars

\* The TestResults of a finalized tag whose SBOM and build info collectors
\* passed and whose watcher found the marker or ran into its deadline
FinalTests(startup_found) ==
    [test \in {"Container startup", "Create SBOM", "Get build info"} |->
        IF test = "Container startup" /\ ~startup_found
        THEN [status |-> "FAIL", message |-> "INIT NOT FINISHED", runtime |-> "elapsed"]
        ELSE [status |-> "PASS", message |-> "-", runtime |-> "elapsed"]]

\* A state in which CI.run has returned to run_test: screenshots are disabled,
\* every worker has finalized, and nothing failed but the watcher of the
\* workers in failed, which ran into its deadline.
RunReturned(failed) ==
    /\ sbom_timeout = MaxSbomTimeout
    /\ logs_timeout = MaxLogsTimeout
    /\ screenshot = FALSE
    /\ ACCESS_KEY = DefaultKey
    /\ SECRET_KEY = DefaultKey
    /\ screenshot_timeout = MaxScreenshotTimeout
    /\ shotPc = "idle"
    /\ shotElapsed = 0
    /\ png = {}
    /\ sessions = 0
    /\ quits = 0
    /\ quitErrors = 0
    /\ pcMain = "run"
    /\ pcRun = "returned"
    /\ display = "stopped"
    /\ pc = [i \in Workers |-> "done"]
    /\ container = [i \in Workers |-> "removed"]
    /\ sbomPc = [i \in Workers |-> "returned"]
    /\ sbomElapsed = [i \in Workers |-> 0]
    /\ logblobBound = [i \in Workers |-> FALSE]
    /\ logblob = [i \in Workers |-> {}]
    /\ error_message = [i \in Workers |-> NotFoundMessage]
    /\ sbom = [i \in Workers |-> {"VERSION"}]
    /\ syftRuns = [i \in Workers |-> 1]
    /\ syftRemoves = [i \in Workers |-> 1]
    /\ logsPc = [i \in Workers |-> "returned"]
    /\ logsElapsed = [i \in Workers |-> 0]
    /\ logsfound = [i \in Workers |-> i \notin failed]
    /\ build_info = [i \in Workers |-> EmptyDict]
    /\ screenshot_success = [i \in Workers |-> FALSE]
    /\ endtests = [i \in Workers |-> 1]
    /\ removes = [i \in Workers |-> 1]
    /\ tag_report_tests =
          [t \in TagSet |-> FinalTests(\A i \in Workers : tags[i] = t => i \notin failed)]
    /\ report_containers =
          [t \in TagSet |-> TagReportOf(t, BuildInfoOk(t), {"VERSION"},
                                \A i \in Workers : tags[i] = t => i \notin failed,
                                Measured)]
    /\ report_status = IF failed = {} THEN "PASS" ELSE "FAIL"
    /\ events = [i \in Workers |-> IF i \in failed THEN {"logs_timeout"} ELSE {}]
    /\ rendered = {}
    /\ uploaded = {}
    /\ upload_failed = "none"
    /\ log_uploads = << >>
    /\ raised = "none"
    /\ calls = << >>
    /\ results = << >>

\* run_test from the return of CI.run on
InitPublish ==
    /\ tags \in TagLists
    /\ \E failed \in SUBSET DOMAIN tags : RunReturned(failed)

NextPublish ==
    \/ RunTestOverride
    \/ ReportRender
    \/ BadgeRender
    \/ JsonRender
    \/ ReportUpload
    \/ RunTestExit

SpecPublish == InitPublish /\ [][NextPublish]_vars

(* ------------------------------------------------------------------------ *)
(*                                 claims                                   *)
(* ------------------------------------------------------------------------ *)
\* The test container of worker i was launched
Launched(i) == container[i] # "none"

\* CI.run has returned or raised
RunEnded == pcRun \in {"returned", "raised"}

\* The watcher of worker i has returned False
NotFoundReported(i) == logsPc[i] = "returned" /\ ~logsfound[i]

\* A TestResult of the given status is recorded for (tag, test)
HasResult(tag, test, status) ==
    /\ test \in DOMAIN tag_report_tests[tag]
    /\ tag_report_tests[tag][test]["status"] = status

\* Some FAIL TestResult is recorded for the tag
HasFail(tag) == \E test \in DOMAIN tag_report_tests[tag] : HasResult(tag, test, "FAIL")

\* Steps in which a collector of worker i begins
BeginsSbom(i) == sbomPc[i] = "submitted" /\ sbomPc'[i] # "submitted"
BeginsBuildInfo(i) == pc[i] = "collect" /\ pc'[i] = "decide"
BeginsScreenshot(i) == pc[i] = "decide" /\ pc'[i] = "finish"

\* C1 (as claimed, for the runs in which every test container was launched):
\* once CI.run has ended, report_containers holds an entry for every tag of
\* the run and for no other key, each with a boolean test_success.
C1_OneReportPerTag ==
    (RunEnded /\ \A i \in Workers : Launched(i)) =>
        /\ DOMAIN report_containers = TagSet
        /\ \A t \in DOMAIN report_containers :
               report_containers[t]["test_success"] \in BOOLEAN

\* C2 (as claimed): once the watcher of a tag has reported not-found, no
\* other collector (generate_sbom, get_build_info, take_screenshot) begins for
\* that tag, and the tag's TagReport has test_success = false.
C2_NoCollectorAfterNotFound ==
    /\ [][\A i \in Workers : NotFoundReported(i) =>
             ~(BeginsSbom(i) \/ BeginsBuildInfo(i) \/ BeginsScreenshot(i))]_vars
    /\ [](\A i \in Workers : (NotFoundReported(i) /\ pc[i] = "done") =>
             report_containers[tags[i]]["test_success"] = FALSE)

\* C2 (amended): once the watcher of a tag has reported not-found,
\* take_screenshot is not begun for that tag, and the TagReport the worker
\* writes has test_success = false. (get_build_info still runs after the
\* watcher has returned, and generate_sbom runs concurrently with it.)
C2_NoScreenshotAfterNotFound ==
    /\ [][\A i \in Workers : NotFoundReported(i) => ~BeginsScreenshot(i)]_vars
    /\ [](\A i \in Workers : (NotFoundReported(i) /\ pc[i] = "done") =>
             /\ report_containers[tags[i]]["test_success"] = FALSE
             /\ "Get screenshot" \notin DOMAIN tag_report_tests[tags[i]])

\* C2 witness: a watcher ran into its deadline and the worker has finalized
C2_Witness ==
    \E i \in Workers :
        /\ "logs_timeout" \in events[i]
        /\ NotFoundReported(i)
        /\ pc[i] = "done"
        /\ report_containers[tags[i]]["test_success"] = FALSE
        /\ HasResult(tags[i], "Get build info", "PASS")

\* C3 (as claimed): when generate_sbom has been left, by return or by an
\* exception, the number of remove calls on the scanner container equals the
\* number of scanner containers run.
C3_ScannerAlwaysRemoved ==
    \A i \in Workers :
        sbomPc[i] \in {"returned", "raised"} => syftRemoves[i] = syftRuns[i]

\* The failures that keep a worker from calling take_screenshot or from
\* finalizing
BlockingFailures ==
    {"launch", "sbom_run", "sbom_unbound", "sbom_timeout", "logs_error",
     "logs_timeout", "build_info", "endtest_logs"}

\* C4: for a finalized tag whose startup, build info and SBOM succeeded and
\* whose screenshot failed, test_success is false if get_platform(tag) is
\* amd64 and true otherwise, and a FAIL 'Get screenshot' result is recorded.
C4_ScreenshotFailure ==
    \A i \in Workers :
        (pc[i] = "done" /\ "screenshot" \in events[i]
                        /\ events[i] \cap BlockingFailures = {}) =>
            /\ report_containers[tags[i]]["test_success"]
                   = (get_platform(tags[i]) # "amd64")
            /\ HasResult(tags[i], "Get screenshot", "FAIL")

\* C4 witness: an amd64 tag and a tag of another platform are both
\* finalized after a failed screenshot
C4_Witness ==
    \E i, j \in Workers :
        /\ pc[i] = "done" /\ pc[j] = "done"
        /\ events[i] = {"screenshot"} /\ events[j] = {"screenshot"}
        /\ get_platform(tags[i]) = "amd64"
        /\ get_platform(tags[j]) # "amd64"
        /\ report_containers[tags[i]]["test_success"] = FALSE
        /\ report_containers[tags[j]]["test_success"] = TRUE

\* C5 (as claimed): after the override of run_test, report_status is PASS
\* whenever a finalized tag whose get_platform is amd64 has test_success.
C5_OverrideByPlatform ==
    (pcMain = "publish" /\ \E t \in DOMAIN report_containers :
          /\ get_platform(t) = "amd64"
          /\ report_containers[t]["test_success"] = TRUE)
    => report_status = "PASS"

\* C6: the override never turns PASS into FAIL, and when no tag of platform
\* amd64 passed while one of them failed, report_status is FAIL after it.
C6_OverrideOnlyUpgrades ==
    /\ [][(pcMain = "run" /\ pcMain' = "publish" /\ report_status = "PASS")
             => report_status' = "PASS"]_vars
    /\ []((/\ pcMain = "publish"
           /\ \E t \in DOMAIN report_containers :
                 /\ get_platform(t) = "amd64"
                 /\ report_containers[t]["test_success"] = FALSE
           /\ \A t \in DOMAIN report_containers :
                 get_platform(t) = "amd64" =>
                     report_containers[t]["test_success"] = FALSE)
          => report_status = "FAIL")

\* C6 witness: {amd64: FAIL, arm64: PASS} after the override
C6_Witness ==
    /\ pcMain = "publish"
    /\ tags = <<"amd64-1.0", "arm64-1.0">>
    /\ report_containers["amd64-1.0"]["test_success"] = FALSE
    /\ report_containers["arm64-1.0"]["test_success"] = TRUE
    /\ report_status = "FAIL"

\* C7: when CI.run has returned and run_test has not yet applied its
\* override, a TagReport with test_success = false implies report_status FAIL.
C7_FailedTagFailsRun ==
    (/\ pcRun = "returned"
     /\ pcMain = "run"
     /\ \E t \in DOMAIN report_containers :
           report_containers[t]["test_success"] = FALSE)
    => report_status = "FAIL"

\* C7 witness: run has returned with a failed tag
C7_Witness ==
    /\ pcRun = "returned"
    /\ pcMain = "run"
    /\ \E i \in Workers :
          /\ "logs_timeout" \in events[i]
          /\ report_containers[tags[i]]["test_success"] = FALSE

\* The scenario of C8: tags amd64-1.0 and arm64-1.0, nothing fails for the
\* amd64 tag, and for the arm64 tag the SBOM collector runs into its deadline
\* and nothing else fails.
C8_Scenario ==
    /\ tags = <<"amd64-1.0", "arm64-1.0">>
    /\ events[1] = {}
    /\ events[2] = {"sbom_timeout"}

\* C8: in that scenario, after the override of run_test, the arm64 TagReport
\* has test_success = false and a FAIL 'Create SBOM' result, the amd64
\* TagReport has test_success = true and no FAIL result, and report_status
\* is PASS.
C8_ArmSbomTimeout ==
    (C8_Scenario /\ pcMain = "publish") =>
        /\ report_containers["arm64-1.0"]["test_success"] = FALSE
        /\ HasResult("arm64-1.0", "Create SBOM", "FAIL")
        /\ report_containers["amd64-1.0"]["test_success"] = TRUE
        /\ ~HasFail("amd64-1.0")
        /\ report_status = "PASS"

\* C8 witness: the scenario, after the override
C8_Witness ==
    /\ C8_Scenario
    /\ pcMain = "publish"
    /\ report_containers["arm64-1.0"]["sysinfo"] = SbomError

\* The scenario of C9: screenshots are disabled and every worker has ended
\* without a failure of the launch, the watcher, the build info, the SBOM
\* collector or the final log capture.
C9_Scenario ==
    /\ ~screenshot
    /\ \A i \in Workers : Finished(i) /\ events[i] \subseteq {"remove"}

\* C9: in that scenario every tag has a TagReport with test_success = true
\* and report_status is PASS, whatever the interleaving of the workers was.
C9_HappyPath ==
    C9_Scenario =>
        /\ \A i \in Workers :
              /\ tags[i] \in DOMAIN report_containers
              /\ report_containers[tags[i]]["test_success"] = TRUE
        /\ report_status = "PASS"

\* C9 witness: two tags, both finalized without a failure
C9_Witness ==
    /\ C9_Scenario
    /\ tags = <<"amd64-1.0", "arm64-1.0">>
    /\ pcMain = "publish"
    /\ HasResult("amd64-1.0", "Container startup", "PASS")
    /\ HasResult("arm64-1.0", "Create SBOM", "PASS")

\* C10 (as claimed): a worker that launched its test container and has ended
\* has called _endtest exactly once and remove on its test container.
C10_FinalizeOnce ==
    \A i \in Workers :
        (Finished(i) /\ Launched(i)) => (endtests[i] = 1 /\ removes[i] = 1)

\* C11 (as claimed): generate_sbom is never left by an exception, and when it
\* has run into its deadline it has recorded a FAIL 'Create SBOM' result and
\* returned "ERROR".
C11_SbomNeverRaises ==
    \A i \in Workers :
        /\ sbomPc[i] # "raised"
        /\ "sbom_timeout" \in events[i] =>
               /\ HasResult(tags[i], "Create SBOM", "FAIL")
               /\ (pc[i] \in {"collect", "decide"} => sbom[i] = SbomError)

\* The seven fields of a BuildInfo
BuildInfoFields ==
    {"version", "created", "size", "maintainer", "builder", "tag", "image"}

\* C12 (as claimed): the dict get_build_info has returned to container_test
\* has the seven fields; after a failure all of them are "ERROR" and a FAIL
\* 'Get build info' result is recorded, otherwise none is "ERROR" and a PASS
\* result is recorded.
C12_BuildInfoSevenFields ==
    \A i \in Workers :
        pc[i] = "decide" =>
            /\ DOMAIN build_info[i] = BuildInfoFields
            /\ IF "build_info" \in events[i]
               THEN /\ \A f \in BuildInfoFields : build_info[i][f] = "ERROR"
                    /\ HasResult(tags[i], "Get build info", "FAIL")
               ELSE /\ \A f \in BuildInfoFields : build_info[i][f] # "ERROR"
                    /\ HasResult(tags[i], "Get build info", "PASS")

\* Steps in which worker i is dispatched
Dispatched(i) == pc[i] = "queued" /\ pc'[i] # "queued"

\* C13 (as claimed): a worker is only dispatched, and a screenshot is only
\* taken, while the display is started.
C13_DisplayBeforeDispatch ==
    [][\A i \in Workers :
          /\ Dispatched(i) => display = "started"
          /\ (BeginsScreenshot(i) /\ screenshot) => display = "started"]_vars

\* C14: the display is stopped only in a step taken when every worker has
\* ended, and when CI.run has ended the display is stopped if it was started
\* (run returned) and was never started otherwise (run raised).
C14_DisplayStoppedAfterWorkers ==
    /\ [][(display # "stopped" /\ display' = "stopped") =>
             (display = "started" /\ \A i \in Workers : pc[i] \in {"done", "raised"})]_vars
    /\ [](display = "stopped" => \A i \in Workers : pc[i] \in {"done", "raised"})
    /\ [](pcRun = "returned" => display = "stopped")
    /\ [](pcRun = "raised" => display = "none")

\* C14 witness: run has returned with the display stopped after two workers,
\* one of which met a failure
C14_Witness ==
    /\ pcRun = "returned"
    /\ display = "stopped"
    /\ Cardinality(Workers) = 2
    /\ \E i \in Workers : "logs_timeout" \in events[i] /\ pc[i] = "done"

\* The failures that make a worker raise
FatalFailures == {"launch", "sbom_run", "sbom_unbound", "endtest_logs"}

C16_RunNeverRaises ==
    pcRun # "raised"

\* run_test has been left, by return or by an exception
RunTestEnded == pcMain \in {"returned", "raised"}

\* The CIErrors run_test raises itself or through report_upload
CIErrors == {"CIError: Upload Error", "CIError: CI Tests did not PASS!"}

\* A publishing step has failed: a renderer, an upload of report_upload, or a
\* log_upload
PublishingFailed ==
    \/ raised = "render exception"
    \/ (pcMain \notin {"publish", "badge", "json"} /\ rendered # Artifacts)
    \/ upload_failed # "none"
    \/ \E k \in DOMAIN log_uploads : log_uploads[k] # "ok"

\* C17: run_test is left with a CIError only when report_status is FAIL after
\* the override or a publishing step failed; it returns only with PASS; with
\* PASS and no failed publishing step it returns; and when it returns or
\* raises 'CI Tests did not PASS!', index.html is rendered and every rendered
\* file is uploaded (all of the report, the badge and the JSON when no
\* renderer failed).
C17_RunTestExit ==
    /\ (pcMain = "raised" /\ raised \in CIErrors) =>
           (report_status = "FAIL" \/ PublishingFailed)
    /\ pcMain = "returned" =>
           (report_status = "PASS" /\ raised = "none" /\ upload_failed = "none")
    /\ (RunTestEnded /\ report_status = "PASS" /\ ~PublishingFailed) =>
           pcMain = "returned"
    /\ (pcMain = "returned" \/ raised = "CIError: CI Tests did not PASS!") =>
           /\ "index.html" \in rendered
           /\ uploaded = rendered
           /\ ~PublishingFailed => uploaded = Artifacts

\* C17 witness: run_test has raised 'CI Tests did not PASS!' for a failed
\* amd64 tag after rendering and uploading the three files
C17_Witness ==
    /\ pcMain = "raised"
    /\ raised = "CIError: CI Tests did not PASS!"
    /\ report_status = "FAIL"
    /\ ~PublishingFailed
    /\ uploaded = Artifacts
    /\ \E t \in DOMAIN report_containers : report_containers[t]["test_success"] = FALSE

\* C18 (as claimed): when an upload has failed inside report_upload, exactly
\* one log_upload was attempted, the failing file and no file after it is
\* uploaded, and run_test is left by CIError 'Upload Error' whatever the
\* log_upload met.
C18_UploadFailure ==
    upload_failed # "none" =>
        /\ Len(log_uploads) = 1
        /\ upload_failed \notin uploaded
        /\ uploaded \subseteq rendered
        /\ pcMain = "raised"
        /\ raised = "CIError: Upload Error"

\* The platforms get_platform returns
Platforms == {"amd64", "arm64", "arm", "riscv64"}

\* C19 (as claimed): every call of get_platform returns a platform, equal
\* tags give equal results, tags starting amd64 give amd64, arm64 gives
\* arm64, arm32v7 gives arm, riscv64 gives riscv64 and every other tag gives
\* amd64.
C19_PlatformByNamedPrefix ==
    \A k \in DOMAIN calls :
        LET tag == calls[k]["tag"]
            r == results[k]
        IN  /\ r \in Platforms
            /\ \A j \in DOMAIN calls : calls[j]["tag"] = tag => results[j] = r
            /\ StartsWith(tag, "amd64") => r = "amd64"
            /\ StartsWith(tag, "arm64") => r = "arm64"
            /\ StartsWith(tag, "arm32v7") => r = "arm"
            /\ StartsWith(tag, "riscv64") => r = "riscv64"
            /\ ~(\/ StartsWith(tag, "amd64") \/ StartsWith(tag, "arm64")
                 \/ StartsWith(tag, "arm32v7") \/ StartsWith(tag, "riscv64"))
                   => r = "amd64"

\* C19 (amended): every call of get_platform returns a platform, equal tags
\* give equal results, tags starting amd64 give amd64, arm64 gives arm64,
\* arm32 gives arm, riscv gives riscv64 and every other tag (the tags shorter
\* than five characters among them) gives amd64.
C19_PlatformByFiveCharacters ==
    \A k \in DOMAIN calls :
        LET tag == calls[k]["tag"]
            r == results[k]
        IN  /\ r \in Platforms
            /\ \A j \in DOMAIN calls : calls[j]["tag"] = tag => results[j] = r
            /\ StartsWith(tag, "amd64") => r = "amd64"
            /\ StartsWith(tag, "arm64") => r = "arm64"
            /\ StartsWith(tag, "arm32") => r = "arm"
            /\ StartsWith(tag, "riscv") => r = "riscv64"
            /\ ~(\/ StartsWith(tag, "amd64") \/ StartsWith(tag, "arm64")
                 \/ StartsWith(tag, "arm32") \/ StartsWith(tag, "riscv"))
                   => r = "amd64"

\* C19 witness: get_platform was called twice, with a tag shorter than five
\* characters and with a tag starting riscv64
C19_Witness ==
    /\ Len(calls) = 2
    /\ calls[1]["tag"] = "amd6" /\ results[1] = "amd64"
    /\ calls[2]["tag"] = "riscv64-foo" /\ results[2] = "riscv64"

\* The last call of _add_test_result and whether it returned
LastCall == calls[Len(calls)]
LastReturned == Len(calls) > 0 /\ results[Len(results)] = "None"

\* C20: after a call of _add_test_result that returned, the entry read back
\* under its (tag, name) has the written status and message; the step of the
\* call adds that name to the names of the tag and leaves every entry of
\* every other name and of every other tag as it was; a call that raised
\* changes nothing.
C20_RoundTrip ==
    /\ [](LastReturned =>
             /\ LastCall["test"] \in DOMAIN tag_report_tests[LastCall["tag"]]
             /\ tag_report_tests[LastCall["tag"]][LastCall["test"]]["status"]
                    = LastCall["status"]
             /\ tag_report_tests[LastCall["tag"]][LastCall["test"]]["message"]
                    = LastCall["message"])
    /\ [][Len(calls') = Len(calls) + 1 =>
            LET c == calls'[Len(calls')]
            IN  IF results'[Len(results')] = "None"
                THEN /\ DOMAIN tag_report_tests' = DOMAIN tag_report_tests
                     /\ DOMAIN tag_report_tests'[c["tag"]]
                            = DOMAIN tag_report_tests[c["tag"]] \cup {c["test"]}
                     /\ \A t \in DOMAIN tag_report_tests :
                            t # c["tag"] => tag_report_tests'[t] = tag_report_tests[t]
                     /\ \A n \in DOMAIN tag_report_tests[c["tag"]] :
                            n # c["test"] => tag_report_tests'[c["tag"]][n]
                                                 = tag_report_tests[c["tag"]][n]
                ELSE tag_report_tests' = tag_report_tests]_vars

\* C20 witness: a second result was written under the (tag, name) of the
\* first with another status and message, next to an entry of another name
C20_Witness ==
    /\ Len(calls) = 2
    /\ results = <<"None", "None">>
    /\ calls[1]["tag"] = calls[2]["tag"]
    /\ calls[1]["test"] = calls[2]["test"]
    /\ calls[1]["status"] = "PASS" /\ calls[2]["status"] = "FAIL"
    /\ calls[1]["message"] # calls[2]["message"]
    /\ tag_report_tests[calls[2]["tag"]][calls[2]["test"]]["status"] = "FAIL"
    /\ Cardinality(DOMAIN tag_report_tests[calls[2]["tag"]]) = 1

\* C21 (as claimed): the runtime recorded by a call of _add_test_result that
\* returned is "-" when its start_time is the default 0.0 or an empty value,
\* and the formatted elapsed time otherwise.
C21_UnmeasuredRuntime ==
    LastReturned =>
        tag_report_tests[LastCall["tag"]][LastCall["test"]]["runtime"]
            = IF LastCall["start_time"]["truthy"] THEN "elapsed" ELSE "-"

\* Worker i has written to the slot of its tag in tag_report_tests (one of its
\* collector tasks has returned, which records a result) or in
\* report_containers (it has finalized)
WroteSlot(i) ==
    \/ logsPc[i] = "returned"
    \/ sbomPc[i] = "returned"
    \/ pc[i] \in {"decide", "finish", "done"}

\* The tests whose result the two concurrent tasks of a worker record
SbomTaskTests == {"Create SBOM"}
LogsTaskTests == {"Container startup"}

\* C22 (as claimed): no two workers have written the slot of the same tag,
\* and the two concurrent tasks of a worker record under different names.
C22_OneWriterPerSlot ==
    /\ \A i, j \in Workers : (i # j /\ WroteSlot(i) /\ WroteSlot(j)) => tags[i] # tags[j]
    /\ SbomTaskTests \cap LogsTaskTests = {}

\* C23 (as claimed): when one of the two collector tasks of the worker hangs,
\* the worker sooner or later stops waiting for them.
C23_WorkerStopsWaiting ==
    (sbomPc[1] = "hung" \/ logsPc[1] = "hung") ~> (pc[1] # "collect")

\* C24 (as claimed): no formatted record contains one of the two configured
\* credentials.
C24_NoCredentialInRecord ==
    \A k \in DOMAIN results :
        /\ ~InStr(ACCESS_KEY, results[k])
        /\ ~InStr(SECRET_KEY, results[k])

\* The pair of an item: its key before the first "=", its value after it
FirstEquals(item) == CHOOSE p \in 1..Len(item) :
    Char(item, p) = "=" /\ \A q \in 1..(p - 1) : Char(item, q) # "="
ItemKey(item) == SubSeq(item, 1, FirstEquals(item) - 1)
ItemValue(item) == SubSeq(item, FirstEquals(item) + 1, Len(item))
HasPair(item) == InStr("=", item) /\ ItemValue(item) # ""
RECURSIVE ItemPairs(_)
ItemPairs(items) ==
    IF Len(items) = 0 THEN << >>
    ELSE (IF HasPair(Head(items))
          THEN << << ItemKey(Head(items)), ItemValue(Head(items)) >> >> ELSE << >>)
         \o ItemPairs(Tail(items))

\* C25 (as claimed): _split_key_value_string returns the key/value pairs of
\* the items that contain "=" and have a non-empty value, in input order (as
\* a dict, a later value of a key replacing an earlier one), the list form
\* holding the same pairs as "key:value" strings.
C25_SplitReturnsPairs ==
    \A k \in DOMAIN results :
        LET pairs == ItemPairs(Split(calls[k]["kv"], "|"))
        IN  results[k] =
                [raised |-> "none",
                 value |-> IF calls[k]["make_list"]
                           THEN [i \in DOMAIN pairs |-> pairs[i][1] \o ":" \o pairs[i][2]]
                           ELSE DictOf(pairs, << >>)]

\* C26: the test_success of a finalized tag is true exactly when the watcher
\* found the marker, get_build_info did not return the error marker,
\* generate_sbom did not return "ERROR", and the screenshot did not fail or
\* the tag's platform is not amd64.
C26_TestSuccess ==
    \A i \in Workers :
        pc[i] = "done" =>
            report_containers[tags[i]]["test_success"] =
                (/\ logsfound[i]
                 /\ ~HasResult(tags[i], "Get build info", "FAIL")
                 /\ sbom[i] # SbomError
                 /\ \/ ~HasResult(tags[i], "Get screenshot", "FAIL")
                    \/ get_platform(tags[i]) # "amd64")

\* C26 witness: one tag is finalized after a failure of get_build_info alone,
\* another after a failure of generate_sbom alone, both with test_success false
C26_Witness ==
    \E i, j \in Workers :
        /\ pc[i] = "done" /\ pc[j] = "done"
        /\ events[i] = {"build_info"} /\ events[j] = {"sbom_timeout"}
        /\ logsfound[i] /\ logsfound[j]
        /\ sbom[i] # SbomError
        /\ report_containers[tags[i]]["test_success"] = FALSE
        /\ report_containers[tags[j]]["test_success"] = FALSE

\* The three collectors of worker i have completed successfully
CollectorsSucceeded(i) ==
    /\ logsPc[i] = "returned" /\ logsfound[i]
    /\ sbomPc[i] = "returned" /\ sbom[i] # SbomError
    /\ build_info[i] = BuildInfoOk(tags[i])
    /\ HasResult(tags[i], "Container startup", "PASS")
    /\ HasResult(tags[i], "Get build info", "PASS")
    /\ HasResult(tags[i], "Create SBOM", "PASS")

\* A collector of worker i has failed
CollectorFailed(i) ==
    events[i] \cap {"logs_timeout", "logs_error", "build_info", "sbom_timeout",
                    "sbom_run", "sbom_unbound"} # {}

\* C27: take_screenshot is called for a tag only when the watcher,
\* get_build_info and generate_sbom of that tag have completed successfully;
\* after a failure of one of the three it is never called for that tag.
C27_ScreenshotAfterCollectors ==
    /\ [][\A i \in Workers : BeginsScreenshot(i) => CollectorsSucceeded(i)]_vars
    /\ [][\A i \in Workers : CollectorFailed(i) => ~BeginsScreenshot(i)]_vars
    /\ [](\A i \in Workers : CollectorFailed(i) =>
             /\ pc[i] # "finish"
             /\ "Get screenshot" \notin DOMAIN tag_report_tests[tags[i]])

\* C27 witness: take_screenshot has been called for one tag and the worker of
\* another tag has finalized after a failure of get_build_info
C27_Witness ==
    \E i, j \in Workers :
        /\ pc[i] = "finish" /\ events[i] \subseteq {"screenshot"}
        /\ HasResult(tags[i], "Create SBOM", "PASS")
        /\ pc[j] = "done" /\ "build_info" \in events[j]
        /\ "Get screenshot" \notin DOMAIN tag_report_tests[tags[j]]

\* C28: an APIError of a poll ends watch_container_logs: in that step, taken
\* before the deadline, it records the FAIL 'Container startup' result with
\* the error text, sets report_status to FAIL and returns False; from then on
\* the watcher takes no step and the result stays.
C28_PollErrorIsTerminal ==
    /\ [][\A i \in Workers :
            ("logs_error" \in events'[i] /\ "logs_error" \notin events[i]) =>
                /\ logsPc[i] = "loop" /\ LogsBeforeDeadline(i)
                /\ logsPc'[i] = "returned" /\ ~logsfound'[i]
                /\ report_status' = "FAIL"]_vars
    /\ [][\A i \in Workers : "logs_error" \in events[i] =>
            /\ logsPc'[i] = logsPc[i]
            /\ logsElapsed'[i] = logsElapsed[i]
            /\ logsfound'[i] = logsfound[i]]_vars
    /\ [](\A i \in Workers : "logs_error" \in events[i] =>
            /\ logsPc[i] = "returned" /\ ~logsfound[i]
            /\ HasResult(tags[i], "Container startup", "FAIL")
            /\ tag_report_tests[tags[i]]["Container startup"]["message"]
                   = "INIT NOT FINISHED: APIError")

\* C28 witness: a poll raised APIError before the deadline of a positive
\* timeout budget was reached, and the worker has gone on to its end
C28_Witness ==
    \E i \in Workers :
        /\ "logs_error" \in events[i]
        /\ logs_timeout > 0
        /\ NotFoundReported(i)
        /\ HasResult(tags[i], "Container startup", "FAIL")
        /\ report_status = "FAIL"
        /\ pc[i] = "done"

\* The 'Container startup' results recorded for the tag of worker i
StartupResults(i) ==
    { tag_report_tests[tags[i]][t] :
        t \in DOMAIN tag_report_tests[tags[i]] \cap {"Container startup"} }

\* C29: watch_container_logs records one 'Container startup' result, in the
\* step in which it returns, and none before; it returns True with PASS
\* recorded only from a poll begun before the deadline, and False with FAIL
\* recorded otherwise, also with a timeout budget of zero.
C29_OneStartupResult ==
    /\ [](\A i \in Workers :
            /\ logsPc[i] # "returned" => StartupResults(i) = {}
            /\ logsPc[i] = "returned" =>
                   HasResult(tags[i], "Container startup",
                             IF logsfound[i] THEN "PASS" ELSE "FAIL")
            /\ (logsPc[i] = "returned" /\ logs_timeout = 0) => ~logsfound[i])
    /\ [][\A i \in Workers :
            /\ StartupResults(i)' # StartupResults(i) =>
                   logsPc[i] = "loop" /\ logsPc'[i] = "returned"
            /\ (logsPc[i] = "loop" /\ logsPc'[i] = "returned" /\ logsfound'[i]) =>
                   LogsBeforeDeadline(i)
            /\ (logsPc[i] = "loop" /\ logsPc'[i] = "returned" /\ ~LogsBeforeDeadline(i)) =>
                   ~logsfound'[i]]_vars

\* C29 witness: with a timeout budget of zero the watcher of one tag returned
\* False with FAIL recorded
C29_Witness ==
    \E i \in Workers :
        /\ logs_timeout = 0
        /\ logsPc[i] = "returned"
        /\ "logs_timeout" \in events[i]
        /\ HasResult(tags[i], "Container startup", "FAIL")

\* C29 witness of the other case: a watcher returned True with PASS recorded
C29_WitnessFound ==
    \E i \in Workers :
        /\ logsPc[i] = "returned" /\ logsfound[i]
        /\ HasResult(tags[i], "Container startup", "PASS")

\* C30: with screenshots enabled, a call of take_screenshot records a
\* 'Get screenshot' result in the step in which it returns and in no other
\* step; it returns True with PASS recorded and the file of the tag in
\* outdir, or False with FAIL recorded and report_status FAIL; it touches no
\* other tag's results, and it never raises.
C30_ScreenshotResult ==
    /\ [][(Len(results') = Len(results) + 1 /\ screenshot) =>
            LET tag == calls'[Len(results')]["tag"]
                r == results'[Len(results')]
            IN  /\ r \in BOOLEAN
                /\ "Get screenshot" \in DOMAIN tag_report_tests'[tag]
                /\ r => /\ tag_report_tests'[tag]["Get screenshot"]["status"] = "PASS"
                        /\ tag \in png'
                /\ ~r => /\ tag_report_tests'[tag]["Get screenshot"]["status"] = "FAIL"
                         /\ report_status' = "FAIL"
                /\ \A t \in TagSet \ {tag} : tag_report_tests'[t] = tag_report_tests[t]]_vars
    /\ [][Len(results') = Len(results) =>
            /\ tag_report_tests' = tag_report_tests
            /\ report_status' = report_status]_vars
    /\ [](/\ raised = "none"
          /\ shotPc = "loop" => shotElapsed <= screenshot_timeout
          /\ Len(results) = IF shotPc = "loop" THEN Len(calls) - 1 ELSE Len(calls))

\* C30 witness: a call returned True with the file written, and a later call
\* for another tag returned False after its retry window was exhausted
C30_Witness ==
    /\ screenshot
    /\ screenshot_timeout = MaxScreenshotTimeout
    /\ Len(results) = 2
    /\ results[1] = TRUE /\ results[2] = FALSE
    /\ calls[1]["tag"] # calls[2]["tag"]
    /\ calls[1]["tag"] \in png
    /\ HasResult(calls[1]["tag"], "Get screenshot", "PASS")
    /\ HasResult(calls[2]["tag"], "Get screenshot", "FAIL")
    /\ tag_report_tests[calls[2]["tag"]]["Get screenshot"]["message"] = "TIMEOUT"
    /\ report_status = "FAIL"

\* C31 (as claimed): when take_screenshot has returned, every browser
\* session it created has been quit exactly once; a session is never quit
\* twice.
C31_SessionsQuitOnce ==
    /\ quits <= sessions
    /\ shotPc = "idle" => quits = sessions

\* C32: with screenshots disabled, the call of take_screenshot creates no
\* browser session, records no result, leaves report_status as it is and
\* reports success; the test_success of a finalized tag is then true exactly
\* when the watcher, get_build_info and generate_sbom succeeded.
C32_DisabledScreenshot ==
    /\ [][\A i \in Workers : (BeginsScreenshot(i) /\ ~screenshot) =>
            /\ screenshot_success'[i]
            /\ tag_report_tests' = tag_report_tests
            /\ report_status' = report_status
            /\ sessions' = sessions]_vars
    /\ [](\A i \in Workers : (~screenshot /\ pc[i] = "done") =>
            /\ "Get screenshot" \notin DOMAIN tag_report_tests[tags[i]]
            /\ report_containers[tags[i]]["test_success"] =
                   (/\ logsfound[i]
                    /\ HasResult(tags[i], "Get build info", "PASS")
                    /\ sbom[i] # SbomError))

\* C32 witness: with screenshots disabled an amd64 tag whose three collectors
\* succeeded is finalized with test_success true, FAIL being the status
\* another tag's failure has set
C32_Witness ==
    \E i, j \in Workers :
        /\ ~screenshot
        /\ pc[i] = "done" /\ events[i] = {}
        /\ get_platform(tags[i]) = "amd64"
        /\ report_containers[tags[i]]["test_success"] = TRUE
        /\ HasResult(tags[i], "Create SBOM", "PASS")
        /\ pc[j] = "done" /\ events[j] = {"build_info"}

\* C33: in the step in which container.remove raises APIError, _endtest
\* still writes the TagReport of the tag, with the test_success it was
\* called with, and the worker ends normally; the entry stays.
C33_RemoveFailureLogged ==
    /\ [][\A i \in Workers : ("remove" \in events'[i] /\ "remove" \notin events[i]) =>
            /\ pc'[i] = "done"
            /\ container'[i] = container[i]
            /\ tags[i] \in DOMAIN report_containers'
            /\ report_containers'[tags[i]] =
                   TagReportOf(tags[i], build_info[i], sbom[i], TestSuccess(i), Measured)]_vars
    /\ [](\A i \in Workers : "remove" \in events[i] =>
            /\ pc[i] = "done"
            /\ tags[i] \in DOMAIN report_containers
            /\ report_containers[tags[i]]["test_success"] =
                   (events[i] \cap BlockingFailures = {}
                    /\ ("screenshot" \notin events[i] \/ get_platform(tags[i]) # "amd64")))

\* C33 witness: the removal failed for a tag that passed and for a tag whose
\* watcher ran into its deadline; both TagReports are written
C33_Witness ==
    \E i, j \in Workers :
        /\ events[i] = {"remove"} /\ events[j] = {"logs_timeout", "remove"}
        /\ pc[i] = "done" /\ pc[j] = "done"
        /\ container[i] # "removed" /\ container[j] # "removed"
        /\ report_containers[tags[i]]["test_success"] = TRUE
        /\ report_containers[tags[j]]["test_success"] = FALSE

C35_AdvisoriesByPlatform ==
    \A k \in DOMAIN results :
        LET platform == get_platform(calls[k]["tag"])
            packages == calls[k]["packages"]
            warnings == results[k]["warnings"]
        IN  /\ (warnings["dotnet"] # "") = ("icu-libs" \in packages /\ platform = "arm")
            /\ (warnings["uwsgi"] # "") =
                   ("uwsgi" \in packages /\ platform \in {"arm", "arm64"})
            /\ platform = "amd64" => (warnings["dotnet"] = "" /\ warnings["uwsgi"] = "")
            /\ results[k]["has_warnings"] =
                   (warnings["dotnet"] # "" \/ warnings["uwsgi"] # "")

\* CI.run has returned to run_test, which has not yet run its override
RunReturnedNormally == pcRun = "returned" /\ pcMain = "run"

\* C36 (as claimed): when CI.run returns, report_status is FAIL exactly when
\* the TagReport of some tag has test_success = false.
C36_StatusDerivedFromVerdicts ==
    RunReturnedNormally =>
        ((report_status = "FAIL") =
            (\E t \in DOMAIN report_containers :
                 report_containers[t]["test_success"] = FALSE))

\* The FAIL results recorded for the tags
FailResults(trt) ==
    { << t, test >> \in TagSet \X {"Container startup", "Create SBOM",
                                  "Get build info", "Get screenshot"} :
        /\ test \in DOMAIN trt[t]
        /\ trt[t][test]["status"] = "FAIL" }

\* C37: when CI.run has returned normally, report_status is PASS exactly
\* when no FAIL result is recorded for any tag; during CI.run every step
\* that records a FAIL result leaves report_status FAIL, and report_status
\* changes in no other step.
C37_StatusFollowsResults ==
    /\ [](RunReturnedNormally =>
            ((report_status = "PASS") = (FailResults(tag_report_tests) = {})))
    /\ [][pcMain' = "run" =>
            /\ FailResults(tag_report_tests') # FailResults(tag_report_tests)
                   => report_status' = "FAIL"
            /\ report_status' # report_status
                   => FailResults(tag_report_tests') # FailResults(tag_report_tests)]_vars

\* C37 witness: CI.run has returned with the FAIL 'Create SBOM' result of one
\* tag as the only FAIL result, and report_status FAIL
C37_Witness ==
    /\ RunReturnedNormally
    /\ report_status = "FAIL"
    /\ \E i \in Workers :
          /\ FailResults(tag_report_tests) = { << tags[i], "Create SBOM" >> }
          /\ tags[i] \in DOMAIN report_containers

\* The collector outcomes that set report_status
StatusFailures ==
    {"sbom_timeout", "logs_error", "logs_timeout", "build_info", "screenshot"}

\* C38: during CI.run report_status never goes from FAIL back to PASS, and
\* when CI.run has returned it is FAIL exactly when one of the collectors met
\* a failure, whatever the order of the workers' and collectors' steps was.
C38_StatusMonotone ==
    /\ [][(pcMain' = "run" /\ report_status = "FAIL") => report_status' = "FAIL"]_vars
    /\ [](RunReturnedNormally =>
            ((report_status = "FAIL") =
                (\E i \in Workers : events[i] \cap StatusFailures # {})))

\* C38 witness: the collectors of two tags have both set FAIL, one tag's
\* watcher and the other tag's get_build_info, and CI.run has returned
C38_Witness ==
    \E i, j \in Workers :
        /\ RunReturnedNormally
        /\ events[i] = {"logs_timeout"}
        /\ events[j] = {"build_info"}
        /\ report_status = "FAIL"

\* A syft.logs() call of worker i has raised and generate_sbom is still in
\* its loop
SbomPollFailed(i) == sbomPc[i] = "loop" /\ error_message[i] = "APIError"

\* C39: before its deadline generate_sbom is left only by a poll that sees
\* VERSION: an exception of a poll records nothing, leaves report_status as
\* it is and keeps the collector polling, and a later poll before the
\* deadline that sees VERSION records the PASS 'Create SBOM' result and
\* returns the log, report_status untouched.
C39_SbomPollErrorNotTerminal ==
    [][\A i \in Workers :
          /\ (sbomPc[i] = "loop" /\ SbomBeforeDeadline(i) /\ sbomPc'[i] # "loop") =>
                 /\ sbomPc'[i] = "returned"
                 /\ "VERSION" \in sbom'[i]
                 /\ "Create SBOM" \in DOMAIN tag_report_tests'[tags[i]]
                 /\ tag_report_tests'[tags[i]]["Create SBOM"]["status"] = "PASS"
                 /\ report_status' = report_status
          /\ (sbomPc[i] = "loop" /\ sbomPc'[i] = "loop"
                                 /\ sbomElapsed'[i] # sbomElapsed[i]) =>
                 /\ tag_report_tests' = tag_report_tests
                 /\ report_status' = report_status
          /\ (SbomPollFailed(i) /\ sbomPc'[i] = "loop") => SbomPollFailed(i)']_vars

\* C39 witness: a poll has raised and the collector is still polling before
\* its deadline, no result recorded and report_status PASS
C39_Witness ==
    \E i \in Workers :
        /\ SbomPollFailed(i)
        /\ SbomBeforeDeadline(i)
        /\ "Create SBOM" \notin DOMAIN tag_report_tests[tags[i]]
        /\ report_status = "PASS"

\* C40: a call of _add_test_result with a status other than PASS and FAIL,
\* or with a tag that is not a tag of the run, raises ValueError and leaves
\* tag_report_tests as it was; every other call returns.
C40_RejectsBadArguments ==
    [][Len(calls') = Len(calls) + 1 =>
          LET c == calls'[Len(calls')]
          IN  IF c["status"] \notin {"PASS", "FAIL"} \/ c["tag"] \notin TagSet
              THEN /\ results'[Len(results')] = "ValueError"
                   /\ tag_report_tests' = tag_report_tests
              ELSE results'[Len(results')] = "None"]_vars

\* C40 witness: a call with the status SKIP for a tag of the run and a call
\* with the status PASS for an unknown tag both raised, nothing recorded
C40_Witness ==
    /\ Len(calls) = 2
    /\ results = <<"ValueError", "ValueError">>
    /\ calls[1]["status"] = "SKIP" /\ calls[1]["tag"] \in TagSet
    /\ calls[2]["status"] = "PASS" /\ calls[2]["tag"] \notin TagSet
    /\ \A t \in TagSet : tag_report_tests[t] = EmptyDict

====
